---- MODULE Spec2Model ----
(***************************************************************************)
(* Medlas AI: the record store (services/storage), the adherence and       *)
(* insight engine (services/medication) and the AI augmentation            *)
(* (services/gemini), as a state machine over the persisted collections.   *)
(*                                                                         *)
(* storage  AsyncStorage: key -> stored array (a missing key reads as the  *)
(*          default, the empty array)                                      *)
(* now      Date.now(), in milliseconds                                    *)
(* rnd      number of Math.random() suffixes drawn so far (senior ids)     *)
(* last     the store or engine operation that ran last: its name and      *)
(*          arguments, the storage and the clock it started from, whether  *)
(*          it rejected, the storage fault that struck it, the AI outcome  *)
(* budget   the number of steps the run may still take                     *)
(* tasks    the async functions the UI has started, each at its await      *)
(***************************************************************************)
EXTENDS Integers, Sequences, FiniteSets, TLC

VARIABLES storage, now, rnd, last, budget, tasks

vars == <<storage, now, rnd, last, budget, tasks>>

(***************************** bounds **************************************)
MaxSteps == 3
MaxSeedSteps == 1
MaxInsightSteps == 1
MaxAiItems == 1
MaxWeeks == 1
MaxReadSteps == 1
MaxSlotMeds == 3
MaxOffset == 1500
MaxFrequency == 6
MaxRuleSteps == 1
MaxUiEvents == 2
MaxPrompts == 1

(************************* program constants *******************************)
DayMs == 86400000
HourMs == 3600000
MinuteMs == 60000
WindowDays == 7
PolyLimit == 5
AdherenceFloor == 80
MissLimit == 3

(***************************** helpers *************************************)
Range(s) == {s[i] : i \in 1..Len(s)}

Keys == {"seniors", "medications", "doseEvents", "insights"}

EmptyStorage == [k \in Keys |-> <<>>]

(************************** storage faults *********************************)
\* A fault is <<kind, n>>: the n-th AsyncStorage read (write) of the running
\* operation rejects.  <<"none", 0>> is a run without storage failure.
NoFault == <<"none", 0>>

\* The execution context of one operation: the storage as it stands, the
\* clock, the number of reads and writes done so far, whether a rejection is
\* propagating to the caller, and the key and stored value of the write that
\* failed.  spread is the time that passes between two awaited store calls
\* of a loop; result is what the operation returns to its caller, for the
\* operations whose return value is modelled.
Begin(db, t, fault, spread) ==
  [db |-> db, now |-> t, reads |-> 0, writes |-> 0, thrown |-> FALSE,
   fault |-> fault, hit |-> FALSE, failedKey |-> "", prior |-> <<>>,
   spread |-> spread, result |-> <<>>]

\* Mutant of getItem: a failed read answers with the stored value.
getItemStale(c, key) ==
  c.db[key]

\* StorageService.getItem: the stored value, or defaultValue ([]) when the
\* read rejects (the catch returns defaultValue).
getItem(c, key) ==
  IF c.fault = <<"read", c.reads + 1>> THEN <<>> ELSE c.db[key]

\* The context after a getItem.
AfterGet(c) ==
  [c EXCEPT !.reads = @ + 1, !.hit = @ \/ c.fault = <<"read", c.reads + 1>>]

\* Mutant of setItem: the catch logs and swallows the failure, as getItem's
\* does.
setItemSwallow(c, key, value) ==
  IF c.fault = <<"write", c.writes + 1>>
  THEN [c EXCEPT !.writes = @ + 1, !.hit = TRUE,
                 !.failedKey = key, !.prior = c.db[key]]
  ELSE [c EXCEPT !.writes = @ + 1, !.db[key] = value]

\* StorageService.setItem: writes the value; when AsyncStorage.setItem
\* rejects, nothing is written and "Could not save <key>. Try again." is
\* thrown.
setItem(c, key, value) ==
  IF c.fault = <<"write", c.writes + 1>>
  THEN [c EXCEPT !.writes = @ + 1, !.thrown = TRUE, !.hit = TRUE,
                 !.failedKey = key, !.prior = c.db[key]]
  ELSE [c EXCEPT !.writes = @ + 1, !.db[key] = value]

(***************************** seniors *************************************)
getSeniors(c) == getItem(c, "seniors")

\* id: `senior_${Date.now()}_${Math.random()...}`, modelled <<now, suffix>>.
addSenior(c, senior, suffix) ==
  LET seniors == getSeniors(c)
      newSenior == [id |-> <<c.now, suffix>>, age |-> senior.age]
  IN setItem(AfterGet(c), "seniors", Append(seniors, newSenior))

updateSenior(c, id, updates) ==
  LET seniors == getSeniors(c)
      c1 == AfterGet(c)
      hits == {i \in 1..Len(seniors) : seniors[i].id = id}
      index == IF hits = {} THEN -1 ELSE CHOOSE i \in hits : \A j \in hits : i <= j
  IN IF index # -1
     THEN setItem(c1, "seniors", [seniors EXCEPT ![index].age = updates.age])
     ELSE c1

(**************************** medications **********************************)
getAllMedications(c) == getItem(c, "medications")

getMedications(c, seniorId) ==
  SelectSeq(getItem(c, "medications"), LAMBDA m : m.seniorId = seniorId)

\* id: Date.now().toString()
addMedication(c, medication) ==
  LET medications == getAllMedications(c)
      newMedication == [id |-> c.now, seniorId |-> medication.seniorId,
                        name |-> medication.name, times |-> medication.times,
                        food |-> medication.food]
  IN setItem(AfterGet(c), "medications", Append(medications, newMedication))

updateMedication(c, id, updates) ==
  LET medications == getAllMedications(c)
      c1 == AfterGet(c)
      hits == {i \in 1..Len(medications) : medications[i].id = id}
      index == IF hits = {} THEN -1 ELSE CHOOSE i \in hits : \A j \in hits : i <= j
  IN IF index # -1
     THEN setItem(c1, "medications",
                  [medications EXCEPT ![index].times = updates.times])
     ELSE c1

(**************************** dose events **********************************)
getAllDoseEvents(c) == getItem(c, "doseEvents")

getDoseEvents(c, seniorId) ==
  SelectSeq(getItem(c, "doseEvents"), LAMBDA e : e.seniorId = seniorId)

\* id: Date.now().toString()
addDoseEvent(c, event) ==
  LET events == getAllDoseEvents(c)
      newEvent == [id |-> c.now, seniorId |-> event.seniorId,
                   medicationId |-> event.medicationId,
                   scheduledTime |-> event.scheduledTime,
                   recordedTime |-> event.recordedTime,
                   status |-> event.status]
  IN setItem(AfterGet(c), "doseEvents", Append(events, newEvent))

\* The dose events deleteMedication keeps (its cascade).
filteredEvents(doseEvents, id) ==
  SelectSeq(doseEvents, LAMBDA e : e.medicationId # id)

\* Mutant of deleteMedication: the filter drops every medication of the
\* resident that owns the medication, not only the medication itself.
deleteMedicationBySenior(c, id) ==
  LET medications == getAllMedications(c)
      owners == {m.seniorId : m \in {x \in Range(medications) : x.id = id}}
      filtered == SelectSeq(medications, LAMBDA m : m.seniorId \notin owners)
      c2 == setItem(AfterGet(c), "medications", filtered)
  IN IF c2.thrown THEN c2
     ELSE LET doseEvents == getAllDoseEvents(c2)
          IN setItem(AfterGet(c2), "doseEvents", filteredEvents(doseEvents, id))

deleteMedication(c, id) ==
  LET medications == getAllMedications(c)
      filtered == SelectSeq(medications, LAMBDA m : m.id # id)
      c2 == setItem(AfterGet(c), "medications", filtered)
  IN IF c2.thrown THEN c2
     ELSE LET doseEvents == getAllDoseEvents(c2)
          IN setItem(AfterGet(c2), "doseEvents", filteredEvents(doseEvents, id))

\* deleteSenior's loop over the resident's medications.
RECURSIVE deleteEach(_, _)
deleteEach(c, medications) ==
  IF medications = <<>> \/ c.thrown THEN c
  ELSE deleteEach(deleteMedication(c, Head(medications).id), Tail(medications))

deleteSenior(c, id) ==
  LET seniors == getSeniors(c)
      filtered == SelectSeq(seniors, LAMBDA s : s.id # id)
      c2 == setItem(AfterGet(c), "seniors", filtered)
  IN IF c2.thrown THEN c2
     ELSE deleteEach(AfterGet(c2), getMedications(c2, id))

(****************************** insights ***********************************)
getAllInsights(c) == getItem(c, "insights")

getInsights(c, seniorId) ==
  SelectSeq(getItem(c, "insights"), LAMBDA i : i.seniorId = seniorId)

\* id: Date.now().toString(); createdAtISO: new Date().toISOString()
addInsight(c, insight) ==
  LET insights == getAllInsights(c)
      newInsight == [id |-> c.now, seniorId |-> insight.seniorId,
                     severity |-> insight.severity,
                     message |-> insight.message,
                     suggestedAction |-> insight.suggestedAction,
                     createdAt |-> c.now]
  IN setItem(AfterGet(c), "insights", Append(insights, newInsight))

\* Mutant of clearInsights: the insights of every resident are dropped.
clearInsightsAll(c, seniorId) ==
  setItem(AfterGet(c), "insights", <<>>)

clearInsights(c, seniorId) ==
  LET insights == getAllInsights(c)
      filtered == SelectSeq(insights, LAMBDA i : i.seniorId # seniorId)
  IN setItem(AfterGet(c), "insights", filtered)

(***************************** adherence ***********************************)
\* calculateAdherence, lines 117-130: the loop over the resident's
\* medications, giving totalExpectedDoses and takenDoses.
RECURSIVE adherenceLoop(_, _, _, _)
adherenceLoop(medications, doseEvents, days, startDate) ==
  IF medications = <<>> THEN [totalExpectedDoses |-> 0, takenDoses |-> 0]
  ELSE LET med == Head(medications)
           rest == adherenceLoop(Tail(medications), doseEvents, days, startDate)
           dailyDoses == Len(med.times)
           medDoseEvents ==
             SelectSeq(doseEvents, LAMBDA event :
               /\ event.medicationId = med.id
               /\ event.status = "taken"
               /\ event.recordedTime >= startDate)
       IN [totalExpectedDoses |-> dailyDoses * days + rest.totalExpectedDoses,
           takenDoses |-> Len(medDoseEvents) + rest.takenDoses]

\* calculateAdherence (two storage reads): the percentage
\* (takenDoses / totalExpectedDoses) * 100, or 100, kept exact as the
\* fraction num / den.
calculateAdherence(c, seniorId, days) ==
  LET startDate == c.now - days * DayMs
      medications == getMedications(c, seniorId)
      doseEvents == getDoseEvents(AfterGet(c), seniorId)
      n == adherenceLoop(medications, doseEvents, days, startDate)
  IN IF n.totalExpectedDoses > 0
     THEN [num |-> n.takenDoses * 100, den |-> n.totalExpectedDoses]
     ELSE [num |-> 100, den |-> 1]

\* Mutant of belowFloor: an adherence of exactly 80 counts as below.
belowFloorInclusive(adherence) == adherence.num <= AdherenceFloor * adherence.den

\* adherence < 80
belowFloor(adherence) == adherence.num < AdherenceFloor * adherence.den

(************************* insight generation ******************************)
PolyInsight(seniorId) ==
  [seniorId |-> seniorId, severity |-> "info",
   message |-> "Polypharmacy: more than 5 active medications",
   suggestedAction |-> "Review with physician for possible medication reduction"]

AdherenceInsight(seniorId) ==
  [seniorId |-> seniorId, severity |-> "warning",
   message |-> "Adherence below 80% in the last 7 days",
   suggestedAction |-> "Review medication schedule and barriers to adherence"]

MissInsight(seniorId, hour) ==
  [seniorId |-> seniorId, severity |-> "info",
   message |-> "Multiple missed doses at " \o ToString(hour) \o ":00",
   suggestedAction |-> "Consider adjusting medication time from "
                       \o ToString(hour) \o ":00 to better fit routine"]

\* new Date(iso).getHours()
getHours(t) == (t % DayMs) \div HourMs

\* Mutant of missLoop: an hour needs more than three misses.
RECURSIVE missLoopStrict(_, _, _)
missLoopStrict(seniorId, missedEvents, hour) ==
  IF hour > 23 THEN <<>>
  ELSE LET count == Len(SelectSeq(missedEvents,
                          LAMBDA e : getHours(e.scheduledTime) = hour))
       IN (IF count > MissLimit THEN <<MissInsight(seniorId, hour)>> ELSE <<>>)
          \o missLoopStrict(seniorId, missedEvents, hour + 1)

\* Lines 168-183: missPatterns[hour] counts the missed events of that hour;
\* Object.entries lists its integer keys in ascending order.
RECURSIVE missLoop(_, _, _)
missLoop(seniorId, missedEvents, hour) ==
  IF hour > 23 THEN <<>>
  ELSE LET count == Len(SelectSeq(missedEvents,
                          LAMBDA e : getHours(e.scheduledTime) = hour))
       IN (IF count >= MissLimit THEN <<MissInsight(seniorId, hour)>> ELSE <<>>)
          \o missLoop(seniorId, missedEvents, hour + 1)

\* Mutant of ruleInsights: the adherence check runs before the
\* polypharmacy check.
ruleInsightsAdherenceFirst(c, seniorId) ==
  LET medications == getMedications(c, seniorId)
      c1 == AfterGet(c)
      adherence == calculateAdherence(c1, seniorId, WindowDays)
      c3 == AfterGet(AfterGet(c1))
      doseEvents == getDoseEvents(c3, seniorId)
      missedEvents == SelectSeq(doseEvents, LAMBDA event :
                        event.status = "skipped" \/ event.status = "delayed")
  IN (IF belowFloor(adherence) THEN <<AdherenceInsight(seniorId)>> ELSE <<>>)
     \o (IF Len(medications) > PolyLimit THEN <<PolyInsight(seniorId)>> ELSE <<>>)
     \o missLoop(seniorId, missedEvents, 0)

\* Mutant of ruleInsights: five medications already count as polypharmacy.
ruleInsightsAtLimit(c, seniorId) ==
  LET medications == getMedications(c, seniorId)
      c1 == AfterGet(c)
      adherence == calculateAdherence(c1, seniorId, WindowDays)
      c3 == AfterGet(AfterGet(c1))
      doseEvents == getDoseEvents(c3, seniorId)
      missedEvents == SelectSeq(doseEvents, LAMBDA event :
                        event.status = "skipped" \/ event.status = "delayed")
  IN (IF Len(medications) >= PolyLimit THEN <<PolyInsight(seniorId)>> ELSE <<>>)
     \o (IF belowFloor(adherence) THEN <<AdherenceInsight(seniorId)>> ELSE <<>>)
     \o missLoop(seniorId, missedEvents, 0)

\* Steps 1-3 of generateInsights (lines 136-183): four storage reads.
ruleInsights(c, seniorId) ==
  LET medications == getMedications(c, seniorId)
      c1 == AfterGet(c)
      adherence == calculateAdherence(c1, seniorId, WindowDays)
      c3 == AfterGet(AfterGet(c1))
      doseEvents == getDoseEvents(c3, seniorId)
      missedEvents == SelectSeq(doseEvents, LAMBDA event :
                        event.status = "skipped" \/ event.status = "delayed")
  IN (IF Len(medications) > PolyLimit THEN <<PolyInsight(seniorId)>> ELSE <<>>)
     \o (IF belowFloor(adherence) THEN <<AdherenceInsight(seniorId)>> ELSE <<>>)
     \o missLoop(seniorId, missedEvents, 0)

\* The context after the four reads of steps 1-3.
AfterRules(c) == AfterGet(AfterGet(AfterGet(AfterGet(c))))

(***************************** gemini **************************************)
\* What the AI collaborator does in one run:
\*   probe  "throws" | "offline" | "online"   Network.getNetworkStateAsync
\*   model  geminiModel is initialised
\*   call   "throws" | "ok"                   generateContent / response.text
\*   match  "none" | "malformed" | "array"    text.match(/\[[\s\S]*\]/) and
\*                                            JSON.parse of the match
\*   items  the parsed array, when match = "array"
AiItem(j) ==
  [severity |-> "warning",
   message |-> "AI insight " \o ToString(j),
   suggestedAction |-> "AI action " \o ToString(j)]

RECURSIVE AiItems(_)
AiItems(k) == IF k = 0 THEN <<>> ELSE Append(AiItems(k - 1), AiItem(k))

Ai(probe, model, call, match, items) ==
  [probe |-> probe, model |-> model, call |-> call, match |-> match,
   items |-> items]

AiOffline == Ai("offline", TRUE, "ok", "array", AiItems(MaxAiItems))

AiOnline == Ai("online", TRUE, "ok", "array", AiItems(MaxAiItems))

AiOutcomes ==
  { Ai("throws", TRUE, "ok", "array", AiItems(MaxAiItems)),
    AiOffline,
    Ai("online", FALSE, "ok", "array", AiItems(MaxAiItems)),
    Ai("online", TRUE, "throws", "array", AiItems(MaxAiItems)),
    Ai("online", TRUE, "ok", "none", <<>>),
    Ai("online", TRUE, "ok", "malformed", <<>>) }
  \cup {Ai("online", TRUE, "ok", "array", AiItems(k)) : k \in 0..MaxAiItems}

\* The outcomes in which the collaborator returns a JSON array.
AiDelivers(ai) ==
  ai.probe = "online" /\ ai.model /\ ai.call = "ok" /\ ai.match = "array"

\* Lines 154-159 of generateGeminiInsight: id, seniorId and createdAtISO
\* are added to each parsed object.
Stamp(items, seniorId, t) ==
  [j \in 1..Len(items) |->
     [id |-> t, seniorId |-> seniorId, severity |-> items[j].severity,
      message |-> items[j].message,
      suggestedAction |-> items[j].suggestedAction, createdAt |-> t]]

\* Mutant of generateGeminiInsight: the JSON array found in the text is
\* matched but its parsed objects are not returned.
generateGeminiInsightEmpty(ai, seniorId, t) ==
  <<>>

\* generateGeminiInsight: no model, a throwing call (caught), a text
\* without a JSON array and a JSON.parse that throws (caught) all return [].
generateGeminiInsight(ai, seniorId, t) ==
  IF ~ai.model THEN <<>>
  ELSE IF ai.call = "throws" THEN <<>>
  ELSE IF ai.match = "none" THEN <<>>
  ELSE IF ai.match = "malformed" THEN <<>>
  ELSE Stamp(ai.items, seniorId, t)

\* The insights of the AI collaborator join the list after steps 1-3.
appendGemini(insights, geminiInsights) ==
  insights \o [j \in 1..Len(geminiInsights) |->
                 [seniorId |-> geminiInsights[j].seniorId,
                  severity |-> geminiInsights[j].severity,
                  message |-> geminiInsights[j].message,
                  suggestedAction |-> geminiInsights[j].suggestedAction]]

\* Mutant of geminiStep: the probe is awaited outside the try.
geminiStepProbeOutsideTry(c, insights, seniorId, ai) ==
  IF ai.probe = "throws" THEN [c |-> [c EXCEPT !.thrown = TRUE], insights |-> insights]
  ELSE IF ai.probe = "offline" THEN [c |-> c, insights |-> insights]
  ELSE LET hasSenior == \E s \in Range(getSeniors(c)) : s.id = seniorId
           c1 == AfterGet(c)
       IN IF ~hasSenior THEN [c |-> c1, insights |-> insights]
          ELSE LET geminiInsights == generateGeminiInsight(ai, seniorId, c.now)
               IN [c |-> c1, insights |-> appendGemini(insights, geminiInsights)]

\* Lines 185-198 of generateInsights: the try block around the probe, the
\* senior lookup (one storage read) and the AI call; the catch swallows.
geminiStep(c, insights, seniorId, ai) ==
  IF ai.probe = "throws" THEN [c |-> c, insights |-> insights]
  ELSE IF ai.probe = "offline" THEN [c |-> c, insights |-> insights]
  ELSE LET hasSenior == \E s \in Range(getSeniors(c)) : s.id = seniorId
           c1 == AfterGet(c)
       IN IF ~hasSenior THEN [c |-> c1, insights |-> insights]
          ELSE LET geminiInsights == generateGeminiInsight(ai, seniorId, c.now)
               IN [c |-> c1, insights |-> appendGemini(insights, geminiInsights)]

\* The milliseconds that pass between two awaited addInsight calls: none
\* (both fall in the same clock millisecond) or one.
Spreads == {0, 1}

\* Time passes between two awaited addInsight calls.
Elapse(c) == [c EXCEPT !.now = @ + c.spread]

\* Lines 202-204: one addInsight per generated insight, until one throws.
RECURSIVE addEach(_, _)
addEach(c, insights) ==
  IF insights = <<>> \/ c.thrown THEN c
  ELSE LET c1 == addInsight(c, Head(insights))
       IN IF Tail(insights) = <<>> \/ c1.thrown THEN c1
          ELSE addEach(Elapse(c1), Tail(insights))

\* Mutant of commitInsights: the old insights are not cleared first.
commitInsightsNoClear(c, insights, seniorId) ==
  IF c.thrown THEN c
  ELSE addEach(c, insights)

\* Lines 200-204: clear, then insert.
commitInsights(c, insights, seniorId) ==
  IF c.thrown THEN c
  ELSE addEach(clearInsights(c, seniorId), insights)

\* The list generateInsights has built when it reaches the commit.
generatedInsights(c, seniorId, ai) ==
  geminiStep(AfterRules(c), ruleInsights(c, seniorId), seniorId, ai)

generateInsights(c, seniorId, ai) ==
  LET g == generatedInsights(c, seniorId, ai)
  IN commitInsights(g.c, g.insights, seniorId)

(************************ time-slot conflicts ******************************)
\* A medication name is the sequence of its characters; "HH:MM" is the
\* record of the two numbers that split(':').map(Number) gives.
UpperCase == <<"A", "B", "C", "D", "E", "F", "G", "H", "I", "J", "K", "L", "M",
               "N", "O", "P", "Q", "R", "S", "T", "U", "V", "W", "X", "Y", "Z">>
LowerCase == <<"a", "b", "c", "d", "e", "f", "g", "h", "i", "j", "k", "l", "m",
               "n", "o", "p", "q", "r", "s", "t", "u", "v", "w", "x", "y", "z">>

\* String.prototype.toLowerCase
toLowerCase(name) ==
  [i \in 1..Len(name) |->
     IF \E k \in 1..Len(UpperCase) : UpperCase[k] = name[i]
     THEN LowerCase[CHOOSE k \in 1..Len(UpperCase) : UpperCase[k] = name[i]]
     ELSE name[i]]

interactionRules ==
  << [drug1 |-> <<"a", "s", "p", "i", "r", "i", "n">>, drug2 |-> <<"w", "a", "r", "f", "a", "r", "i", "n">>,
      severity |-> "critical",
      message |-> "Aspirin and Warfarin taken together increase bleeding risk. Proceed only if instructed by a clinician."],
     [drug1 |-> <<"l", "i", "s", "i", "n", "o", "p", "r", "i", "l">>, drug2 |-> <<"p", "o", "t", "a", "s", "s", "i", "u", "m">>,
      severity |-> "critical",
      message |-> "Lisinopril and Potassium taken together may cause dangerous potassium levels."] >>

\* Mutant of isTimeInSlot: the slot is the 30 minutes before and after,
\* without its end points.
isTimeInSlotStrict(time, slot) ==
  LET timeInMinutes == time.hh * 60 + time.mm
      slotInMinutes == slot.hh * 60 + slot.mm
      diff == timeInMinutes - slotInMinutes
  IN (IF diff < 0 THEN -diff ELSE diff) < 30

isTimeInSlot(time, slot) ==
  LET timeInMinutes == time.hh * 60 + time.mm
      slotInMinutes == slot.hh * 60 + slot.mm
      diff == timeInMinutes - slotInMinutes
  IN (IF diff < 0 THEN -diff ELSE diff) <= 30

\* Mutant of findInteraction: the names are compared as written.
findInteractionCaseSensitive(drug1, drug2) ==
  LET hits == {k \in 1..Len(interactionRules) :
                 \/ /\ interactionRules[k].drug1 = drug1
                    /\ interactionRules[k].drug2 = drug2
                 \/ /\ interactionRules[k].drug2 = drug1
                    /\ interactionRules[k].drug1 = drug2}
  IN IF hits = {} THEN <<>>
     ELSE <<interactionRules[CHOOSE k \in hits : \A h \in hits : k <= h]>>

\* The first rule naming the two drugs, in either order: <<rule>>, or <<>>
\* for null.
findInteraction(drug1, drug2) ==
  LET hits == {k \in 1..Len(interactionRules) :
                 \/ /\ toLowerCase(interactionRules[k].drug1) = toLowerCase(drug1)
                    /\ toLowerCase(interactionRules[k].drug2) = toLowerCase(drug2)
                 \/ /\ toLowerCase(interactionRules[k].drug2) = toLowerCase(drug1)
                    /\ toLowerCase(interactionRules[k].drug1) = toLowerCase(drug2)}
  IN IF hits = {} THEN <<>>
     ELSE <<interactionRules[CHOOSE k \in hits : \A h \in hits : k <= h]>>

\* medications.map(m => m.name)
namesOf(medications) == [k \in 1..Len(medications) |-> medications[k].name]

\* Mutant of foodConflicts: a medication without a food rule counts as one
\* taken with food.
foodConflictsNoneAsWith(medsAtTime) ==
  LET withFood == SelectSeq(medsAtTime, LAMBDA med : med.food # "without")
      withoutFood == SelectSeq(medsAtTime, LAMBDA med : med.food = "without")
  IN IF Len(withFood) > 0 /\ Len(withoutFood) > 0
     THEN << [type |-> "food", severity |-> "warning",
              message |-> "Different food rules at the same time. Separate these medications by 30 minutes.",
              medications |-> namesOf(withFood) \o namesOf(withoutFood)] >>
     ELSE <<>>

\* Lines 57-69 of checkTimeSlotConflicts: the food rule check.
foodConflicts(medsAtTime) ==
  LET withFood == SelectSeq(medsAtTime, LAMBDA med : med.food = "with")
      withoutFood == SelectSeq(medsAtTime, LAMBDA med : med.food = "without")
  IN IF Len(withFood) > 0 /\ Len(withoutFood) > 0
     THEN << [type |-> "food", severity |-> "warning",
              message |-> "Different food rules at the same time. Separate these medications by 30 minutes.",
              medications |-> namesOf(withFood) \o namesOf(withoutFood)] >>
     ELSE <<>>

\* Lines 71-84: the loops over i and j = i + 1 ..
RECURSIVE interactionConflicts(_, _, _)
interactionConflicts(medsAtTime, i, j) ==
  IF i > Len(medsAtTime) THEN <<>>
  ELSE IF j > Len(medsAtTime) THEN interactionConflicts(medsAtTime, i + 1, i + 2)
  ELSE LET interaction == findInteraction(medsAtTime[i].name, medsAtTime[j].name)
       IN (IF interaction # <<>>
           THEN << [type |-> "interaction",
                    severity |-> interaction[1].severity,
                    message |-> interaction[1].message,
                    medications |-> <<medsAtTime[i].name, medsAtTime[j].name>>] >>
           ELSE <<>>)
          \o interactionConflicts(medsAtTime, i, j + 1)

\* Lines 54-56: the medications with some time in the slot.
medsAtTimeOf(medications, timeSlot) ==
  SelectSeq(medications, LAMBDA med :
    \E k \in 1..Len(med.times) : isTimeInSlot(med.times[k], timeSlot))

\* Mutant of checkTimeSlotConflicts: the interaction conflicts come first.
checkTimeSlotConflictsInteractionsFirst(medications, timeSlot) ==
  LET medsAtTime == medsAtTimeOf(medications, timeSlot)
  IN interactionConflicts(medsAtTime, 1, 2) \o foodConflicts(medsAtTime)

checkTimeSlotConflicts(medications, timeSlot) ==
  LET medsAtTime == medsAtTimeOf(medications, timeSlot)
  IN foodConflicts(medsAtTime) \o interactionConflicts(medsAtTime, 1, 2)

(*************************** times of day **********************************)
T0900 == [hh |-> 9, mm |-> 0]
T1300 == [hh |-> 13, mm |-> 0]
T1500 == [hh |-> 15, mm |-> 0]
T1700 == [hh |-> 17, mm |-> 0]
T2100 == [hh |-> 21, mm |-> 0]

\* Mutant of generateDefaultTimes: the default case returns no time.
generateDefaultTimesEmptyDefault(frequency) ==
  CASE frequency = 1 -> <<T0900>>
    [] frequency = 2 -> <<T0900, T2100>>
    [] frequency = 3 -> <<T0900, T1500, T2100>>
    [] frequency = 4 -> <<T0900, T1300, T1700, T2100>>
    [] OTHER -> <<>>

generateDefaultTimes(frequency) ==
  CASE frequency = 1 -> <<T0900>>
    [] frequency = 2 -> <<T0900, T2100>>
    [] frequency = 3 -> <<T0900, T1500, T2100>>
    [] frequency = 4 -> <<T0900, T1300, T1700, T2100>>
    [] OTHER -> <<T0900>>

\* Math.floor(a / b) for b > 0.
mathFloorDiv(a, b) ==
  IF a >= 0 THEN a \div b ELSE -((b - 1 - a) \div b)

\* The % of JavaScript numbers for b > 0: the remainder has the sign of a.
jsRemainder(a, b) ==
  IF a >= 0 THEN a % b ELSE -((-a) % b)

\* n.toString().padStart(2, '0'): only a one-character string is padded.
padStart2(n) ==
  IF 0 <= n /\ n <= 9 THEN "0" \o ToString(n) ELSE ToString(n)

\* Mutant of offsetMedicationTime: the hours are not taken modulo 24.
offsetMedicationTimeNoWrap(time, offsetMinutes) ==
  LET hours == time.hh
      minutes == time.mm
      totalMinutes == hours * 60 + minutes + offsetMinutes
      newHours == mathFloorDiv(totalMinutes, 60)
      newMinutes == jsRemainder(totalMinutes, 60)
  IN padStart2(newHours) \o ":" \o padStart2(newMinutes)

\* The "HH:MM" string the template literal builds.
offsetMedicationTime(time, offsetMinutes) ==
  LET hours == time.hh
      minutes == time.mm
      totalMinutes == hours * 60 + minutes + offsetMinutes
      newHours == jsRemainder(mathFloorDiv(totalMinutes, 60), 24)
      newMinutes == jsRemainder(totalMinutes, 60)
  IN padStart2(newHours) \o ":" \o padStart2(newMinutes)

(****************************** actions ************************************)
TimesChoices == {<<T0900>>, <<T0900, T2100>>}
Statuses == {"taken", "skipped", "delayed"}

\* The faults that can strike a run: c0 is the run without fault, and
\* up to the access that fails a faulty run does what c0 does.
Faults(c0) ==
  {NoFault} \cup {<<"read", n>> : n \in 1..c0.reads}
            \cup {<<"write", n>> : n \in 1..c0.writes}

NoAi == Ai("none", FALSE, "none", "none", <<>>)

NoSenior == <<>>
NoMed == -1

SeniorIds == {s.id : s \in Range(storage.seniors)}
MedIds == {m.id : m \in Range(storage.medications)}

\* What `last` records of an operation that ended in context c.
Record(op, seniorId, medId, c, ai, pre, at, again, prevAt) ==
  [op |-> op, seniorId |-> seniorId, medId |-> medId,
   outcome |-> IF c.thrown THEN "rejected" ELSE "ok",
   fault |-> c.fault, failedKey |-> c.failedKey, prior |-> c.prior,
   ai |-> ai, pre |-> pre, at |-> at, again |-> again, prevAt |-> prevAt,
   result |-> c.result]

\* The operation ends: the storage is what its writes left, the clock is
\* where the operation left it.
Finish(op, seniorId, medId, c, ai) ==
  /\ budget > 0
  /\ budget' = budget - 1
  /\ storage' = c.db
  /\ now' = c.now
  /\ UNCHANGED tasks
  /\ last' = Record(op, seniorId, medId, c, ai, storage, now,
                    /\ op = "generateInsights"
                    /\ last.op = "generateInsights"
                    /\ last.seniorId = seniorId
                    /\ last.ai = ai
                    /\ last.outcome = "ok" /\ last.fault = NoFault
                    /\ ~c.thrown /\ c.fault = NoFault,
                    last.at)

\* The ids of the first two residents added.
SeniorA == <<1, 1>>
SeniorB == <<2, 2>>

\* new Date(); setHours(hours, minutes, 0, 0)  (ScheduleTab.handleDoseAction)
scheduledAt(t, slot) ==
  (t \div DayMs) * DayMs + slot.hh * HourMs + slot.mm * MinuteMs

\* The clock moves on by a millisecond.
TickMs ==
  /\ budget > 0
  /\ budget' = budget - 1
  /\ now' = now + 1
  /\ UNCHANGED <<storage, rnd, last, tasks>>

\* The clock moves on by the adherence window.
TickWeek ==
  /\ budget > 0
  /\ now \div (WindowDays * DayMs) < MaxWeeks
  /\ budget' = budget - 1
  /\ now' = now + WindowDays * DayMs
  /\ UNCHANGED <<storage, rnd, last, tasks>>

AddSenior ==
  /\ \E fault \in Faults(addSenior(Begin(storage, now, NoFault, 0), [age |-> 80], rnd + 1)) :
       Finish("addSenior", <<now, rnd + 1>>, NoMed,
              addSenior(Begin(storage, now, fault, 0), [age |-> 80], rnd + 1), NoAi)
  /\ rnd' = rnd + 1

UpdateSenior ==
  /\ \E id \in SeniorIds \cup {<<-1, 0>>} :
     \E fault \in Faults(updateSenior(Begin(storage, now, NoFault, 0), id, [age |-> 81])) :
       Finish("updateSenior", id, NoMed,
              updateSenior(Begin(storage, now, fault, 0), id, [age |-> 81]), NoAi)
  /\ UNCHANGED rnd

DeleteSenior ==
  /\ \E id \in SeniorIds :
     \E fault \in Faults(deleteSenior(Begin(storage, now, NoFault, 0), id)) :
       Finish("deleteSenior", id, NoMed,
              deleteSenior(Begin(storage, now, fault, 0), id), NoAi)
  /\ UNCHANGED rnd

\* The add-medication form saves a medication for a stored resident.
AddMedication ==
  /\ \E seniorId \in SeniorIds, times \in TimesChoices :
       LET medication == [seniorId |-> seniorId, name |-> "Aspirin",
                          times |-> times, food |-> "none"]
       IN \E fault \in Faults(addMedication(Begin(storage, now, NoFault, 0), medication)) :
            Finish("addMedication", seniorId, now,
                   addMedication(Begin(storage, now, fault, 0), medication), NoAi)
  /\ UNCHANGED rnd

UpdateMedication ==
  /\ \E id \in MedIds \cup {NoMed}, times \in TimesChoices :
     \E fault \in Faults(updateMedication(Begin(storage, now, NoFault, 0), id, [times |-> times])) :
       Finish("updateMedication", NoSenior, id,
              updateMedication(Begin(storage, now, fault, 0), id, [times |-> times]), NoAi)
  /\ UNCHANGED rnd

DeleteMedication ==
  /\ \E id \in MedIds :
     \E fault \in Faults(deleteMedication(Begin(storage, now, NoFault, 0), id)) :
       Finish("deleteMedication", NoSenior, id,
              deleteMedication(Begin(storage, now, fault, 0), id), NoAi)
  /\ UNCHANGED rnd

\* ScheduleTab.recordDose's store call: the event of a medication of the
\* schedule, scheduled today at one of its times and recorded now.
AddDoseEvent ==
  /\ \E m \in Range(storage.medications), status \in Statuses :
       \E slot \in Range(m.times) :
         LET event == [seniorId |-> m.seniorId, medicationId |-> m.id,
                       scheduledTime |-> scheduledAt(now, slot),
                       recordedTime |-> now, status |-> status]
         IN \E fault \in Faults(addDoseEvent(Begin(storage, now, NoFault, 0), event)) :
              Finish("addDoseEvent", m.seniorId, m.id,
                     addDoseEvent(Begin(storage, now, fault, 0), event), NoAi)
  /\ UNCHANGED rnd

\* MedicationService.generateInsights for a stored resident: a run under
\* any of the AI outcomes `ais` with the storage working, or a run that a
\* storage fault strikes with the AI delivering.
GenerateInsights(ais) ==
  /\ \E seniorId \in SeniorIds, spread \in Spreads :
       \/ \E ai \in ais :
            Finish("generateInsights", seniorId, NoMed,
                   generateInsights(Begin(storage, now, NoFault, spread), seniorId, ai), ai)
       \/ \E fault \in Faults(generateInsights(Begin(storage, now, NoFault, spread), seniorId, AiOnline)) \ {NoFault} :
            Finish("generateInsights", seniorId, NoMed,
                   generateInsights(Begin(storage, now, fault, spread), seniorId, AiOnline), AiOnline)
  /\ UNCHANGED rnd

\* The context after a list operation has read and returned `result`.
Listed(c, result) == [AfterGet(c) EXCEPT !.result = result]

\* The list operations, each with its one storage read working or failing.
GetSeniors ==
  /\ \E fault \in Faults(Listed(Begin(storage, now, NoFault, 0), <<>>)) :
       LET c == Begin(storage, now, fault, 0)
       IN Finish("getSeniors", NoSenior, NoMed, Listed(c, getSeniors(c)), NoAi)
  /\ UNCHANGED rnd

GetMedications ==
  /\ \E seniorId \in SeniorIds \cup {NoSenior} :
     \E fault \in Faults(Listed(Begin(storage, now, NoFault, 0), <<>>)) :
       LET c == Begin(storage, now, fault, 0)
       IN Finish("getMedications", seniorId, NoMed,
                 Listed(c, IF seniorId = NoSenior THEN getAllMedications(c)
                           ELSE getMedications(c, seniorId)), NoAi)
  /\ UNCHANGED rnd

GetDoseEvents ==
  /\ \E seniorId \in SeniorIds \cup {NoSenior} :
     \E fault \in Faults(Listed(Begin(storage, now, NoFault, 0), <<>>)) :
       LET c == Begin(storage, now, fault, 0)
       IN Finish("getDoseEvents", seniorId, NoMed,
                 Listed(c, IF seniorId = NoSenior THEN getAllDoseEvents(c)
                           ELSE getDoseEvents(c, seniorId)), NoAi)
  /\ UNCHANGED rnd

GetInsights ==
  /\ \E seniorId \in SeniorIds \cup {NoSenior} :
     \E fault \in Faults(Listed(Begin(storage, now, NoFault, 0), <<>>)) :
       LET c == Begin(storage, now, fault, 0)
       IN Finish("getInsights", seniorId, NoMed,
                 Listed(c, IF seniorId = NoSenior THEN getAllInsights(c)
                           ELSE getInsights(c, seniorId)), NoAi)
  /\ UNCHANGED rnd

\* A synchronous function of the medication service is applied, once in a
\* behaviour: `last` holds its name, its arguments and what it returned.
Applied(call) ==
  /\ last.op = "init"
  /\ last' = call
  /\ UNCHANGED <<budget, tasks>>

T0000 == [hh |-> 0, mm |-> 0]
T0010 == [hh |-> 0, mm |-> 10]
T0830 == [hh |-> 8, mm |-> 30]
T0901 == [hh |-> 9, mm |-> 1]
T0910 == [hh |-> 9, mm |-> 10]
T0929 == [hh |-> 9, mm |-> 29]
T0930 == [hh |-> 9, mm |-> 30]
T0931 == [hh |-> 9, mm |-> 31]
T2345 == [hh |-> 23, mm |-> 45]
T2350 == [hh |-> 23, mm |-> 50]
T2359 == [hh |-> 23, mm |-> 59]

\* The time slots the schedule is checked at.
Slots == {T0900, T0901, T2100}

\* The schedule's conflict check over the stored medications of the first
\* resident, at a time slot.
CheckTimeSlotConflicts ==
  /\ \E timeSlot \in Slots :
       LET medications == getMedications(Begin(storage, now, NoFault, 0), SeniorA)
       IN Applied([op |-> "checkTimeSlotConflicts",
                   medications |-> medications, timeSlot |-> timeSlot,
                   result |-> checkTimeSlotConflicts(medications, timeSlot)])
  /\ UNCHANGED <<storage, now, rnd>>

\* The times the slot test is applied to.
TimePoints ==
  {T0000, T0010, T0830, T0900, T0929, T0930, T0931, T2100, T2350, T2359}

IsTimeInSlot ==
  /\ \E time \in TimePoints, slot \in TimePoints :
       Applied([op |-> "isTimeInSlot", time |-> time, slot |-> slot,
                result |-> isTimeInSlot(time, slot)])
  /\ UNCHANGED <<storage, now, rnd>>

\* The times that are offset, and the offsets in minutes.
OffsetTimes == {T0000, T0931, T2345, T2359}
Offsets == (-MaxOffset)..MaxOffset

OffsetMedicationTime ==
  /\ \E time \in OffsetTimes, offsetMinutes \in Offsets :
       Applied([op |-> "offsetMedicationTime", time |-> time,
                offsetMinutes |-> offsetMinutes,
                result |-> offsetMedicationTime(time, offsetMinutes)])
  /\ UNCHANGED <<storage, now, rnd>>

GenerateDefaultTimes ==
  /\ \E frequency \in (-MaxFrequency)..MaxFrequency :
       Applied([op |-> "generateDefaultTimes", frequency |-> frequency,
                result |-> generateDefaultTimes(frequency)])
  /\ UNCHANGED <<storage, now, rnd>>

(**************************** seeded stores ********************************)
Started(db) ==
  [op |-> "init", seniorId |-> NoSenior, medId |-> NoMed, outcome |-> "ok",
   fault |-> NoFault, failedKey |-> "", prior |-> <<>>, ai |-> NoAi,
   pre |-> db, at |-> 0, again |-> FALSE, prevAt |-> 0, result |-> <<>>]

\* Stores the program reaches, built by the store's own operations at the
\* clock values given.
dbAddSenior(db, t, suffix) ==
  addSenior(Begin(db, t, NoFault, 0), [age |-> 80], suffix).db

dbAddMedication(db, seniorId, times, t) ==
  addMedication(Begin(db, t, NoFault, 0),
                [seniorId |-> seniorId, name |-> "Aspirin", times |-> times,
                 food |-> "none"]).db

dbAddDoseEvent(db, seniorId, medicationId, slot, status, t) ==
  addDoseEvent(Begin(db, t, NoFault, 0),
               [seniorId |-> seniorId, medicationId |-> medicationId,
                scheduledTime |-> scheduledAt(t, slot), recordedTime |-> t,
                status |-> status]).db

\* n medications of one resident, saved at t + 1 .. t + n.
RECURSIVE dbAddMedications(_, _, _, _)
dbAddMedications(db, seniorId, n, t) ==
  IF n = 0 THEN db
  ELSE dbAddMedication(dbAddMedications(db, seniorId, n - 1, t), seniorId,
                       <<T0900>>, t + n)

\* n doses of one medication, recorded at t + 1 .. t + n.
RECURSIVE dbAddDoseEvents(_, _, _, _, _, _)
dbAddDoseEvents(db, seniorId, medicationId, status, n, t) ==
  IF n = 0 THEN db
  ELSE dbAddDoseEvent(dbAddDoseEvents(db, seniorId, medicationId, status, n - 1, t),
                      seniorId, medicationId, T0900, status, t + n)


TwoSeniors == dbAddSenior(dbAddSenior(EmptyStorage, 1, 1), 2, 2)

\* A resident with two medications and one dose taken, and a resident with
\* one medication.
SeedSmall ==
  LET db ==
        dbAddDoseEvent(
                dbAddMedication(
                  dbAddMedication(
                    dbAddMedication(TwoSeniors, SeniorA, <<T0900>>, 3),
                    SeniorB, <<T0900, T2100>>, 4),
                  SeniorA, <<T2100>>, 5),
                SeniorA, 3, T0900, "taken", 6)
  IN [db |-> db, now |-> 7, rnd |-> 2, last |-> Started(db)]

\* A resident with six medications and three doses skipped at 09:00, and a
\* resident with one medication.
SeedPoly ==
  LET db ==
        dbAddDoseEvents(
                dbAddMedication(dbAddMedications(TwoSeniors, SeniorA, 6, 2),
                                SeniorB, <<T0900>>, 9),
                SeniorA, 3, "skipped", 3, 9)
  IN [db |-> db, now |-> 13, rnd |-> 2, last |-> Started(db)]

\* A resident with one medication once a day and seven doses taken.
SeedAdherent ==
  LET db ==
        dbAddDoseEvents(dbAddMedication(TwoSeniors, SeniorA, <<T0900>>, 3),
                              SeniorA, 3, "taken", 7, 3)
  IN [db |-> db, now |-> 11, rnd |-> 2, last |-> Started(db)]

\* A resident with one medication once a day and six doses taken, the
\* oldest of them recorded exactly seven days ago.
SeedAging ==
  LET db ==
        dbAddDoseEvents(dbAddMedication(TwoSeniors, SeniorA, <<T0900>>, 3),
                              SeniorA, 3, "taken", 6, 3)
  IN [db |-> db, now |-> WindowDays * DayMs + 4, rnd |-> 2, last |-> Started(db)]

\* The seed after generateInsights(seniorId) has run on it once, `later`
\* milliseconds ago.
AfterRun(seed, seniorId, ai, later) ==
  LET c == generateInsights(Begin(seed.db, seed.now, NoFault, 0), seniorId, ai)
  IN [db |-> c.db, now |-> c.now + later, rnd |-> seed.rnd,
      last |-> Record("generateInsights", seniorId, NoMed, c, ai, seed.db,
                      seed.now, FALSE, 0)]

Start(seed, steps) ==
  /\ storage = seed.db
  /\ now = seed.now
  /\ rnd = seed.rnd
  /\ budget = steps
  /\ last = seed.last
  /\ tasks = <<>>

(*************************** specifications ********************************)
\* The record store and the engine from the empty store and from a small
\* populated one.
Init ==
  \/ Start([db |-> EmptyStorage, now |-> 0, rnd |-> 0,
           last |-> Started(EmptyStorage)], MaxSteps)
  \/ Start(SeedSmall, MaxSeedSteps)

Next ==
  \/ TickMs
  \/ TickWeek
  \/ AddSenior
  \/ UpdateSenior
  \/ DeleteSenior
  \/ AddMedication
  \/ UpdateMedication
  \/ DeleteMedication
  \/ AddDoseEvent
  \/ GenerateInsights({AiOffline, AiOnline})

Spec == Init /\ [][Next]_vars

\* The insight engine on populated stores, under every AI outcome.
InitInsights ==
  \/ Start(SeedPoly, MaxInsightSteps)
  \/ Start(SeedAdherent, MaxInsightSteps)
  \/ \E ai \in {AiOffline, AiOnline} :
       Start(AfterRun(SeedPoly, SeniorA, ai, 0), MaxInsightSteps)
  \/ Start(AfterRun(SeedAging, SeniorA, AiOffline, 1), MaxInsightSteps)

NextInsights ==
  \/ TickMs
  \/ TickWeek
  \/ DeleteSenior
  \/ AddDoseEvent
  \/ GenerateInsights(AiOutcomes)

SpecInsights == InitInsights /\ [][NextInsights]_vars

\* The medications the add-medication form may have saved for a resident.
Aspirin == <<"A", "s", "p", "i", "r", "i", "n">>
Warfarin == <<"W", "a", "r", "f", "a", "r", "i", "n">>
WarfarinCaps == <<"W", "A", "R", "F", "A", "R", "I", "N">>
LisinoprilSmall == <<"l", "i", "s", "i", "n", "o", "p", "r", "i", "l">>
Potassium == <<"P", "o", "t", "a", "s", "s", "i", "u", "m">>

Catalogue ==
  { [name |-> Aspirin, food |-> "with", times |-> <<T0900>>],
    [name |-> Warfarin, food |-> "without", times |-> <<T0910>>],
    [name |-> WarfarinCaps, food |-> "none", times |-> <<T0930>>],
    [name |-> LisinoprilSmall, food |-> "with", times |-> <<T0931, T2100>>],
    [name |-> Potassium, food |-> "without", times |-> <<T0830>>] }

\* The sequences of at most n catalogue medications.
RECURSIVE CatalogueLists(_)
CatalogueLists(n) ==
  IF n = 0 THEN {<<>>}
  ELSE LET shorter == CatalogueLists(n - 1)
       IN shorter \cup {Append(l, m) : l \in shorter, m \in Catalogue}

\* The store after the medications of the list were saved for a resident
\* at t + 1, t + 2, ...
RECURSIVE dbAddCatalogue(_, _, _, _)
dbAddCatalogue(db, seniorId, list, t) ==
  IF list = <<>> THEN db
  ELSE LET m == list[Len(list)]
           before == dbAddCatalogue(db, seniorId, SubSeq(list, 1, Len(list) - 1), t)
       IN addMedication(Begin(before, t + Len(list), NoFault, 0),
                        [seniorId |-> seniorId, name |-> m.name,
                         times |-> m.times, food |-> m.food]).db

\* The conflict check over every schedule of at most MaxSlotMeds
\* medications.
InitConflicts ==
  \E list \in CatalogueLists(MaxSlotMeds) :
    LET db == dbAddCatalogue(TwoSeniors, SeniorA, list, 2)
    IN Start([db |-> db, now |-> 3 + Len(list), rnd |-> 2, last |-> Started(db)], 0)

NextConflicts ==
  \/ CheckTimeSlotConflicts

SpecConflicts == InitConflicts /\ [][NextConflicts]_vars

\* The time arithmetic of the medication service.
InitTimes ==
  Start([db |-> EmptyStorage, now |-> 0, rnd |-> 0,
         last |-> Started(EmptyStorage)], 0)

NextTimes ==
  \/ IsTimeInSlot
  \/ OffsetMedicationTime
  \/ GenerateDefaultTimes

SpecTimes == InitTimes /\ [][NextTimes]_vars

\* The list operations on the empty store and on populated stores.
InitReads ==
  \/ Start([db |-> EmptyStorage, now |-> 0, rnd |-> 0,
           last |-> Started(EmptyStorage)], MaxReadSteps)
  \/ Start(SeedSmall, MaxReadSteps)
  \/ Start(SeedAdherent, MaxReadSteps)
  \/ \E ai \in {AiOffline, AiOnline}, seniorId \in {SeniorA, SeniorB} :
       Start(AfterRun(SeedPoly, seniorId, ai, 0), MaxReadSteps)

NextReads ==
  \/ GetSeniors
  \/ GetMedications
  \/ GetDoseEvents
  \/ GetInsights

SpecReads == InitReads /\ [][NextReads]_vars

(************************* rule-based insights *****************************)
\* The store after n doses of one medication scheduled at a slot were
\* recorded by addDoseEvent at t + 1 .. t + n.
dbAddDoses(db, seniorId, medicationId, slot, status, n, t) ==
  [db EXCEPT !.doseEvents =
     @ \o [j \in 1..n |->
             [id |-> t + j, seniorId |-> seniorId,
              medicationId |-> medicationId,
              scheduledTime |-> scheduledAt(t + j, slot),
              recordedTime |-> t + j, status |-> status]]]

\* A dose history of the first medication of a resident: doses skipped and
\* delayed at 09:00, skipped at 21:00 and taken at 09:00.
History(skipped, delayed, evening, taken) ==
  [skipped |-> skipped, delayed |-> delayed, evening |-> evening, taken |-> taken]

\* The stores the rules are run on, around their thresholds: n medications
\* of the resident, the dose history of the first of them, and the age of
\* that history (just recorded, or more than the adherence window ago).
\* For five once-daily medications over seven days (35 expected doses) 28
\* taken doses are 80% and 27 are below it.
Scenario(n, h, age) == [n |-> n, h |-> h, age |-> age]

Scenarios ==
  { Scenario(0, History(0, 0, 0, 0), 0),
    Scenario(PolyLimit, History(0, 0, 0, (AdherenceFloor * PolyLimit * WindowDays) \div 100), 0),
    Scenario(PolyLimit, History(0, 0, 0, (AdherenceFloor * PolyLimit * WindowDays) \div 100 - 1), 0),
    Scenario(PolyLimit, History(MissLimit - 1, 1, 0, 0), 0),
    Scenario(PolyLimit + 1, History(MissLimit - 1, 0, 0, MissLimit), 0),
    Scenario(PolyLimit + 1, History(MissLimit, 0, MissLimit, 0), WindowDays * DayMs + 100) }

\* The scenario whose run yields a polypharmacy, an adherence and two
\* miss-pattern insights.
FullScenario ==
  Scenario(PolyLimit + 1, History(MissLimit, 0, MissLimit, 0), WindowDays * DayMs + 100)

\* Resident A with n once-daily medications (ids 3 .. n + 2) and a dose
\* history of medication 3, resident B with one medication and no dose.
RuleSeed(n, h, age) ==
  LET meds == dbAddMedication(dbAddMedications(TwoSeniors, SeniorA, n, 2),
                              SeniorB, <<T0900>>, 9)
      d1 == dbAddDoses(meds, SeniorA, 3, T0900, "skipped", h.skipped, 9)
      d2 == dbAddDoses(d1, SeniorA, 3, T0900, "delayed", h.delayed, 9 + h.skipped)
      d3 == dbAddDoses(d2, SeniorA, 3, T2100, "skipped", h.evening,
                       9 + h.skipped + h.delayed)
      db == dbAddDoses(d3, SeniorA, 3, T0900, "taken", h.taken,
                       9 + h.skipped + h.delayed + h.evening)
  IN [db |-> db,
      now |-> 10 + h.skipped + h.delayed + h.evening + h.taken + age,
      rnd |-> 2, last |-> Started(db)]

\* generateInsights and getInsights over the scenarios as they stand, and
\* over the full scenario after a run for either resident with the AI
\* delivering.
InitRules ==
  \/ \E x \in Scenarios : Start(RuleSeed(x.n, x.h, x.age), MaxRuleSteps)
  \/ \E seniorId \in {SeniorA, SeniorB} :
       Start(AfterRun(RuleSeed(FullScenario.n, FullScenario.h, FullScenario.age),
                      seniorId, AiOnline, 0), MaxRuleSteps)

NextRules ==
  \/ GenerateInsights({AiOffline, AiOnline})
  \/ GetInsights

SpecRules == InitRules /\ [][NextRules]_vars

(****************************** UI tasks ***********************************)
\* An async function started by the UI and not yet settled. Its steps are
\* what runs between two awaits that touch the store: at a ".get" step the
\* AsyncStorage read is answered and the function computes the value it
\* will save (snap); at the following ".set" step the save lands.
NoEvent ==
  [seniorId |-> NoSenior, medicationId |-> NoMed, scheduledTime |-> 0,
   recordedTime |-> 0, status |-> "none"]

Task(kind, seniorId, pc, event) ==
  [kind |-> kind, seniorId |-> seniorId, pc |-> pc, event |-> event,
   ai |-> NoAi, snap |-> <<>>, todo |-> <<>>, slot |-> <<>>, asked |-> FALSE]

\* loadSchedule, lines 83-92: timeMap[time], the medications pushed under a
\* time string, one push per occurrence of the string in med.times.
RECURSIVE timeMapAt(_, _)
timeMapAt(medications, time) ==
  IF medications = <<>> THEN <<>>
  ELSE LET med == Head(medications)
           pushes == Len(SelectSeq(med.times, LAMBDA t : t = time))
       IN [k \in 1..pushes |-> med] \o timeMapAt(Tail(medications), time)

\* ScheduleTab.loadSchedule: the slot of a time holds the medications
\* scheduled at exactly that time and their conflicts.
slotOf(medications, time) ==
  LET meds == timeMapAt(medications, time)
  IN [time |-> time, medications |-> meds,
      conflicts |-> checkTimeSlotConflicts(meds, time)]

\* Mutant of criticalConflict: the conflict looked for is a 'warning'.
criticalConflictWarning(medications, time) ==
  \E k \in 1..Len(slotOf(medications, time).conflicts) :
    slotOf(medications, time).conflicts[k].severity = "warning"

\* handleDoseAction: slot?.conflicts.find(c => c.severity === 'critical')
criticalConflict(medications, time) ==
  \E k \in 1..Len(slotOf(medications, time).conflicts) :
    slotOf(medications, time).conflicts[k].severity = "critical"

\* The pc after the clear and after each insert of generateInsights.
afterInsert(todo) ==
  IF todo = <<>> THEN "done" ELSE "addInsight.get"

\* One step of a task over the store db at clock t: the task and the store
\* after it. ai is the outcome of the AI step, drawn when it is reached.
taskStep(task, db, t, ai) ==
  LET c == Begin(db, t, NoFault, 0)
  IN CASE task.pc = "addDoseEvent.get" ->
            [task |-> [task EXCEPT !.pc = "addDoseEvent.set",
                                   !.snap = addDoseEvent(c, task.event).db.doseEvents],
             db |-> db]
       [] task.pc = "addDoseEvent.set" ->
            [task |-> [task EXCEPT !.pc = "generateInsights", !.snap = <<>>],
             db |-> setItem(c, "doseEvents", task.snap).db]
       [] task.pc = "generateInsights" ->
            [task |-> [task EXCEPT !.pc = "clearInsights.get", !.ai = ai,
                                   !.todo = generatedInsights(c, task.seniorId, ai).insights],
             db |-> db]
       [] task.pc = "clearInsights.get" ->
            [task |-> [task EXCEPT !.pc = "clearInsights.set",
                                   !.snap = clearInsights(c, task.seniorId).db.insights],
             db |-> db]
       [] task.pc = "clearInsights.set" ->
            [task |-> [task EXCEPT !.pc = afterInsert(task.todo), !.snap = <<>>],
             db |-> setItem(c, "insights", task.snap).db]
       [] task.pc = "addInsight.get" ->
            [task |-> [task EXCEPT !.pc = "addInsight.set",
                                   !.snap = addInsight(c, Head(task.todo)).db.insights,
                                   !.todo = Tail(task.todo)],
             db |-> db]
       [] task.pc = "addInsight.set" ->
            [task |-> [task EXCEPT !.pc = afterInsert(task.todo), !.snap = <<>>],
             db |-> setItem(c, "insights", task.snap).db]
       [] task.pc = "loadDashboard" ->
            [task |-> [task EXCEPT !.pc = "done",
                                   !.snap = getSeniors(c)],
             db |-> db]

\* The pcs at which a task waits for the user or has settled.
Parked == {"alert", "cancelled", "done"}

\* The Alert of handleDoseAction is on screen: nothing else can be pressed.
AlertShown == \E i \in 1..Len(tasks) : tasks[i].pc = "alert"

\* A UI event starts an async function; the handler does not wait for the
\* functions started earlier.
StartTask(task) ==
  /\ budget > 0
  /\ ~AlertShown
  /\ budget' = budget - 1
  /\ tasks' = Append(tasks, task)
  /\ now' = now + 1

\* ScheduleTab.handleDoseAction: a dose of a scheduled medication of the
\* resident is marked. 'taken' in a slot with a critical conflict shows the
\* Alert and returns; every other case awaits recordDose.
HandleDoseAction ==
  /\ \E i \in 1..Len(storage.medications), action \in Statuses :
     \E time \in Range(storage.medications[i].times) :
       LET medication == storage.medications[i]
           medications == getMedications(Begin(storage, now, NoFault, 0), SeniorA)
           event == [seniorId |-> SeniorA, medicationId |-> medication.id,
                     scheduledTime |-> scheduledAt(now, time),
                     recordedTime |-> now, status |-> action]
           alert == action = "taken" /\ criticalConflict(medications, time)
       IN /\ medication.seniorId = SeniorA
          /\ StartTask([Task("recordDose", SeniorA,
                             IF alert THEN "alert" ELSE "addDoseEvent.get", event)
                          EXCEPT !.slot = <<time>>, !.asked = alert])
  /\ UNCHANGED <<storage, rnd, last>>

\* The Alert's 'Override & Record' button: onPress calls recordDose.
OverrideAndRecord ==
  /\ \E i \in 1..Len(tasks) :
       /\ tasks[i].pc = "alert"
       /\ tasks' = [tasks EXCEPT ![i].pc = "addDoseEvent.get"]
  /\ UNCHANGED <<storage, now, rnd, last, budget>>

\* The Alert's 'Cancel' button.
CancelAlert ==
  /\ \E i \in 1..Len(tasks) :
       /\ tasks[i].pc = "alert"
       /\ tasks' = [tasks EXCEPT ![i].pc = "cancelled"]
  /\ UNCHANGED <<storage, now, rnd, last, budget>>

\* The Insights tab is opened: AIInsightsTab mounts and its effect calls
\* loadInsights, which awaits generateInsights(seniorId).
OpenInsightsTab ==
  /\ StartTask(Task("loadInsights", SeniorA, "generateInsights", NoEvent))
  /\ UNCHANGED <<storage, rnd, last>>

\* The dashboard gets the focus or is pulled to refresh: loadDashboard.
LoadDashboard ==
  /\ StartTask(Task("loadDashboard", NoSenior, "loadDashboard", NoEvent))
  /\ UNCHANGED <<storage, rnd, last>>

\* A pending AsyncStorage promise settles and the function waiting for it
\* runs up to its next await.
Resume ==
  /\ \E i \in 1..Len(tasks), ai \in {AiOffline, AiOnline} :
       /\ tasks[i].pc \notin Parked
       /\ tasks[i].pc # "generateInsights" => ai = AiOffline
       /\ tasks' = [tasks EXCEPT ![i] = taskStep(tasks[i], storage, now, ai).task]
       /\ storage' = taskStep(tasks[i], storage, now, ai).db
  /\ UNCHANGED <<now, rnd, last, budget>>

\* A resident whose schedule has Aspirin and Warfarin at 09:00 and
\* lisinopril at 21:00, and no dose recorded yet.
SeedSchedule ==
  LET db == dbAddCatalogue(TwoSeniors, SeniorA,
                           << [name |-> Aspirin, food |-> "with", times |-> <<T0900>>],
                              [name |-> Warfarin, food |-> "none", times |-> <<T0900>>],
                              [name |-> LisinoprilSmall, food |-> "with", times |-> <<T2100>>] >>,
                           2)
  IN [db |-> db, now |-> 6, rnd |-> 2, last |-> Started(db)]

InitConcurrent == Start(SeedSchedule, MaxUiEvents)

NextConcurrent ==
  \/ HandleDoseAction
  \/ OverrideAndRecord
  \/ CancelAlert
  \/ OpenInsightsTab
  \/ LoadDashboard
  \/ Resume

SpecConcurrent == InitConcurrent /\ [][NextConcurrent]_vars

\* Resume while the device is offline: generateInsights skips the AI step
\* (isOnline() answers false) and commits the rule-based insights alone.
ResumeOffline ==
  /\ \E i \in 1..Len(tasks) :
       /\ tasks[i].pc \notin Parked
       /\ tasks' = [tasks EXCEPT ![i] = taskStep(tasks[i], storage, now, AiOffline).task]
       /\ storage' = taskStep(tasks[i], storage, now, AiOffline).db
  /\ UNCHANGED <<now, rnd, last, budget>>

\* The same handlers on a device that stays offline, with a bound of their
\* own on the UI events.
\* A resident whose 09:00 slot has a food-rule warning and no critical
\* conflict: Aspirin with food and lisinopril without at 09:00, Warfarin at
\* 21:00.
SeedWarning ==
  LET db == dbAddCatalogue(TwoSeniors, SeniorA,
                           << [name |-> Aspirin, food |-> "with", times |-> <<T0900>>],
                              [name |-> LisinoprilSmall, food |-> "without", times |-> <<T0900>>],
                              [name |-> Warfarin, food |-> "none", times |-> <<T2100>>] >>,
                           2)
  IN [db |-> db, now |-> 6, rnd |-> 2, last |-> Started(db)]

InitPrompt == \E seed \in {SeedSchedule, SeedWarning} : Start(seed, MaxPrompts)

NextPrompt ==
  \/ HandleDoseAction
  \/ OverrideAndRecord
  \/ CancelAlert
  \/ OpenInsightsTab
  \/ LoadDashboard
  \/ ResumeOffline

SpecPrompt == InitPrompt /\ [][NextPrompt]_vars

(****************************** schedule ***********************************)
\* a.localeCompare(b) < 0 for two zero-padded "HH:MM" strings.
timeBefore(a, b) == a.hh < b.hh \/ (a.hh = b.hh /\ a.mm < b.mm)

\* Object.entries(timeMap).sort(([a], [b]) => a.localeCompare(b)): the
\* time strings in ascending order.
RECURSIVE sortedTimes(_)
sortedTimes(times) ==
  IF times = {} THEN <<>>
  ELSE LET first == CHOOSE t \in times : \A u \in times : u = t \/ timeBefore(t, u)
       IN <<first>> \o sortedTimes(times \ {first})

\* ScheduleTab.loadSchedule, lines 80-101: one slot per time string of the
\* resident's medications, in ascending order.
loadSchedule(medications) ==
  LET times == sortedTimes(UNION {Range(medications[k].times) : k \in 1..Len(medications)})
  IN [k \in 1..Len(times) |-> slotOf(medications, times[k])]

\* time.split(':').map(Number) of a string offsetMedicationTime returned:
\* the time whose zero-padded form is the string.
timeOfString(string) ==
  CHOOSE t \in [hh : 0..23, mm : 0..59] :
    padStart2(t.hh) \o ":" \o padStart2(t.mm) = string

\* ScheduleTab.handleAutoOffset, lines 163-177, up to the reload: the first
\* medication of the resident named like the conflict's second medication
\* has its times equal to the slot replaced by the slot + 30 minutes.
handleAutoOffset(c, seniorId, conflict, timeSlot) ==
  LET medications == conflict.medications
      allMeds == getMedications(c, seniorId)
      c1 == AfterGet(c)
      hits == {i \in 1..Len(allMeds) :
                 Len(medications) >= 2 /\ allMeds[i].name = medications[2]}
  IN IF hits = {} THEN c1
     ELSE LET medToOffset == allMeds[CHOOSE i \in hits : \A j \in hits : i <= j]
              newTime == timeOfString(offsetMedicationTime(timeSlot, 30))
              updatedTimes == [k \in 1..Len(medToOffset.times) |->
                                 IF medToOffset.times[k] = timeSlot THEN newTime
                                 ELSE medToOffset.times[k]]
          IN updateMedication(c1, medToOffset.id, [times |-> updatedTimes])

\* The schedule of the first resident is loaded.
LoadSchedule ==
  /\ LET medications == getMedications(Begin(storage, now, NoFault, 0), SeniorA)
     IN Applied([op |-> "loadSchedule", medications |-> medications,
                 result |-> loadSchedule(medications)])
  /\ UNCHANGED <<storage, now, rnd>>

\* The 'Auto offset' button of a food conflict banner of a loaded slot is
\* pressed: handleAutoOffset(conflict, slot.time), which ends by reloading
\* the schedule.
HandleAutoOffset ==
  /\ LET timeSlots == loadSchedule(getMedications(Begin(storage, now, NoFault, 0), SeniorA))
     IN \E k \in 1..Len(timeSlots) :
        \E q \in 1..Len(timeSlots[k].conflicts) :
          LET conflict == timeSlots[k].conflicts[q]
              c == handleAutoOffset(Begin(storage, now, NoFault, 0), SeniorA,
                                    conflict, timeSlots[k].time)
          IN /\ conflict.type = "food"
             /\ storage' = c.db
             /\ Applied([op |-> "handleAutoOffset", timeSlot |-> timeSlots[k].time,
                         conflict |-> conflict, slot |-> timeSlots[k],
                         pre |-> storage,
                         result |-> loadSchedule(getMedications(c, SeniorA))])
  /\ UNCHANGED <<now, rnd>>

\* The medications a schedule is made of: two taken with food and two
\* without at 09:00, one of them also at 21:00, and one without food ten
\* minutes later and late in the evening.
Pharmacy ==
  { [name |-> Aspirin, food |-> "with", times |-> <<T0900>>],
    [name |-> LisinoprilSmall, food |-> "with", times |-> <<T0900, T2100>>],
    [name |-> Warfarin, food |-> "without", times |-> <<T0900>>],
    [name |-> Potassium, food |-> "without", times |-> <<T0910, T2345>>],
    [name |-> WarfarinCaps, food |-> "none", times |-> <<T0930, T2345>>] }

\* The sequences of at most n medications of the pharmacy.
RECURSIVE PharmacyLists(_)
PharmacyLists(n) ==
  IF n = 0 THEN {<<>>}
  ELSE LET shorter == PharmacyLists(n - 1)
       IN shorter \cup {Append(l, m) : l \in shorter, m \in Pharmacy}

\* The schedule tab over every schedule of at most MaxSlotMeds medications.
InitSchedule ==
  \E list \in PharmacyLists(MaxSlotMeds) :
    LET db == dbAddCatalogue(TwoSeniors, SeniorA, list, 2)
    IN Start([db |-> db, now |-> 3 + Len(list), rnd |-> 2, last |-> Started(db)], 0)

NextSchedule ==
  \/ LoadSchedule
  \/ HandleAutoOffset

SpecSchedule == InitSchedule /\ [][NextSchedule]_vars

(******************************* claims ************************************)
\* The insights stored for a resident, and what the idempotence and
\* fallback statements compare: severity, message and suggested action, in
\* stored order (ids and creation timestamps left out).
InsightsOf(db, seniorId) ==
  SelectSeq(db.insights, LAMBDA i : i.seniorId = seniorId)

Content(insights) ==
  [j \in 1..Len(insights) |->
     <<insights[j].severity, insights[j].message, insights[j].suggestedAction>>]

\* The context in which the last operation started, without storage fault.
LastStart == Begin(last.pre, last.at, NoFault, 0)

\* C1: after deleteSenior(id) completes without error (the storage
\* working), the persisted state holds no resident, medication, dose event
\* or insight that references that resident.
C1_DeleteSeniorCascades ==
  (last.op = "deleteSenior" /\ last.outcome = "ok" /\ last.fault = NoFault)
    => /\ \A s \in Range(storage.seniors) : s.id # last.seniorId
       /\ \A m \in Range(storage.medications) : m.seniorId # last.seniorId
       /\ \A e \in Range(storage.doseEvents) : e.seniorId # last.seniorId
       /\ \A i \in Range(storage.insights) : i.seniorId # last.seniorId

\* C2, as stated: when generateInsights(r) completes twice in succession,
\* with no change to residents, medications or dose events in between and
\* the same AI result, the second run leaves for r the insights the first
\* run left (same number, same severities, messages and actions).
C2_Idempotent ==
  last.again =>
    Content(InsightsOf(storage, last.seniorId))
      = Content(InsightsOf(last.pre, last.seniorId))

\* C2, amended: the same, provided calculateAdherence(r, 7) reads the same
\* at both runs (the clock has carried no taken dose out of the seven-day
\* window in between).
C2_IdempotentSameAdherence ==
  ( /\ last.again
    /\ calculateAdherence(Begin(last.pre, last.prevAt, NoFault, 0), last.seniorId, WindowDays)
         = calculateAdherence(LastStart, last.seniorId, WindowDays) )
    => Content(InsightsOf(storage, last.seniorId))
         = Content(InsightsOf(last.pre, last.seniorId))

\* C2 witness: a second run in succession, over a store whose first run
\* left rule-based and AI insights, has left that list again.
C2_Witness ==
  /\ last.again
  /\ last.ai = AiOnline
  /\ Len(InsightsOf(last.pre, last.seniorId)) > 1
  /\ Len(InsightsOf(storage, last.seniorId)) = Len(InsightsOf(last.pre, last.seniorId))

\* C3: when a storage write fails during the commit of generateInsights(r),
\* the insights stored for r are either the entire old set or the entire
\* new set, never empty or a strict subset of the new set.
C3_CommitAllOrNothing ==
  (last.op = "generateInsights" /\ last.fault[1] = "write")
    => \/ Content(InsightsOf(storage, last.seniorId))
            = Content(InsightsOf(last.pre, last.seniorId))
       \/ Content(InsightsOf(storage, last.seniorId))
            = Content(generatedInsights(LastStart, last.seniorId, last.ai).insights)

\* C4: for every failure outcome of the AI collaborator (the probe throws
\* or reports offline, no model, the call throws, no JSON array in the
\* text, a malformed array), with the storage working, generateInsights(r)
\* completes and the insights stored for r are exactly the rule-based
\* insights computed in this run: none of an earlier run, none of the AI.
C4_AiFailureFallsBack ==
  ( /\ last.op = "generateInsights"
    /\ last.fault = NoFault
    /\ ~AiDelivers(last.ai) )
    => /\ last.outcome = "ok"
       /\ Content(InsightsOf(storage, last.seniorId))
            = Content(ruleInsights(LastStart, last.seniorId))

\* C4 witness: the probe threw in a run over a store that held AI insights
\* of an earlier run; the run completed and left rule-based insights only.
C4_Witness ==
  /\ last.op = "generateInsights"
  /\ last.fault = NoFault
  /\ last.ai.probe = "throws"
  /\ last.outcome = "ok"
  /\ \E i \in Range(InsightsOf(last.pre, last.seniorId)) : i.message = AiItem(1).message
  /\ InsightsOf(storage, last.seniorId) # <<>>
  /\ \A i \in Range(InsightsOf(storage, last.seniorId)) : i.message # AiItem(1).message

\* Sum of the daily dose counts of a list of medications.
RECURSIVE dailyDosesOf(_)
dailyDosesOf(medications) ==
  IF medications = <<>> THEN 0
  ELSE Len(Head(medications).times) + dailyDosesOf(Tail(medications))

\* C5: calculateAdherence(r, d) = 100 * T / E, where E = d times the sum
\* of the daily time-slot counts of r's medications and T = the number of
\* r's dose events with status taken recorded within the last d days, each
\* event counted once; 100 when E = 0.
C5_AdherenceFormula ==
  \A r \in SeniorIds, d \in {1, WindowDays} :
    LET c == Begin(storage, now, NoFault, 0)
        E == d * dailyDosesOf(SelectSeq(storage.medications, LAMBDA m : m.seniorId = r))
        T == Len(SelectSeq(storage.doseEvents, LAMBDA e :
               /\ e.seniorId = r
               /\ e.status = "taken"
               /\ e.recordedTime >= now - d * DayMs))
    IN calculateAdherence(c, r, d)
         = IF E = 0 THEN [num |-> 100, den |-> 1] ELSE [num |-> 100 * T, den |-> E]

\* C6: calculateAdherence(r, 7) lies between 0 and 100 inclusive, for every
\* reachable set of dose events.
C6_AdherenceRange ==
  \A r \in SeniorIds :
    LET a == calculateAdherence(Begin(storage, now, NoFault, 0), r, WindowDays)
    IN 0 <= a.num /\ a.num <= 100 * a.den

\* Whether no two records of a stored collection share an id.
UniqueIds(records) ==
  \A i, j \in 1..Len(records) : records[i].id = records[j].id => i = j

\* C7: every record of a collection has an id different from every other
\* record of that collection, also when two are created within the same
\* clock millisecond.
C7_UniqueIds ==
  \A k \in Keys : UniqueIds(storage[k])

\* C8: deleteMedication(id), completing with the storage working, removes
\* exactly the medication with that id and the dose events that reference
\* it, and leaves every other medication and dose event (and the residents
\* and insights) as they were.
C8_DeleteMedicationFrame ==
  (last.op = "deleteMedication" /\ last.outcome = "ok" /\ last.fault = NoFault)
    => /\ storage.medications
            = SelectSeq(last.pre.medications, LAMBDA m : m.id # last.medId)
       /\ storage.doseEvents
            = SelectSeq(last.pre.doseEvents, LAMBDA e : e.medicationId # last.medId)
       /\ storage.seniors = last.pre.seniors
       /\ storage.insights = last.pre.insights

\* C8 witness: a medication with a recorded dose was deleted; its dose is
\* gone, and other medications, one of the same resident among them, stay.
C8_Witness ==
  /\ last.op = "deleteMedication" /\ last.outcome = "ok" /\ last.fault = NoFault
  /\ \E e \in Range(last.pre.doseEvents) : e.medicationId = last.medId
  /\ \E m \in Range(last.pre.medications), k \in Range(storage.medications) :
       m.id = last.medId /\ k.seniorId = m.seniorId
  /\ Len(storage.medications) = Len(last.pre.medications) - 1

\* C9: dose events are append-only.  addDoseEvent, when its write goes
\* through, adds exactly one new event at the end of the stored events for
\* every outcome of the storage read it performs first; and no operation
\* other than the cascading deletes removes or changes a stored dose event.
C9_AppendOnly ==
  /\ (last.op = "addDoseEvent" /\ last.outcome = "ok")
       => /\ Len(storage.doseEvents) = Len(last.pre.doseEvents) + 1
          /\ SubSeq(storage.doseEvents, 1, Len(last.pre.doseEvents))
               = last.pre.doseEvents
  /\ last.op \notin {"addDoseEvent", "deleteMedication", "deleteSenior"}
       => storage.doseEvents = last.pre.doseEvents

\* The operations that write a collection at most once.
SingleWriteOps ==
  {"addSenior", "updateSenior", "addMedication", "updateMedication",
   "deleteMedication", "addDoseEvent"}

\* C10: when a storage write fails, the mutating operation rejects and
\* does not report success, and the collection whose write failed keeps the
\* contents it had before that write.
C10_WriteFailureRejects ==
  last.fault[1] = "write"
    => /\ last.outcome = "rejected"
       /\ last.failedKey \in Keys
       /\ storage[last.failedKey] = last.prior
       /\ last.op \in SingleWriteOps
            => storage[last.failedKey] = last.pre[last.failedKey]

\* C10 witness: the second write of deleteMedication failed; the operation
\* rejected with the medication gone and the dose events as they were.
C10_Witness ==
  /\ last.op = "deleteMedication"
  /\ last.fault = <<"write", 2>>
  /\ last.outcome = "rejected"
  /\ last.failedKey = "doseEvents"
  /\ storage.doseEvents = last.pre.doseEvents
  /\ storage.doseEvents # <<>>
  /\ storage.medications # last.pre.medications

\* The list operations of the store.
ListOps == {"getSeniors", "getMedications", "getDoseEvents", "getInsights"}

\* C11: a storage read failure inside a list operation (getSeniors,
\* getMedications, getDoseEvents, getInsights) is never thrown to the
\* caller: the operation returns an empty collection and the persisted data
\* is left unchanged.
C11_ReadFailureDegrades ==
  (last.op \in ListOps /\ last.fault[1] = "read")
    => /\ last.outcome = "ok"
       /\ last.result = <<>>
       /\ storage = last.pre

\* C11 witness: the read of getDoseEvents failed over a store holding dose
\* events of that resident; the caller got the empty list and the store
\* still holds the events.
C11_Witness ==
  /\ last.op = "getDoseEvents"
  /\ last.fault = <<"read", 1>>
  /\ last.outcome = "ok"
  /\ last.result = <<>>
  /\ \E e \in Range(storage.doseEvents) : e.seniorId = last.seniorId

\* Minutes since midnight of an "HH:MM" time.
MinutesOf(time) == 60 * time.hh + time.mm

\* Whether a medication has some time within 30 minutes of the slot.
NearSlot(med, slot) ==
  \E k \in 1..Len(med.times) :
    /\ MinutesOf(med.times[k]) - MinutesOf(slot) <= 30
    /\ MinutesOf(slot) - MinutesOf(med.times[k]) <= 30

\* The filtered medications of the last conflict check, in input order.
LastFiltered ==
  SelectSeq(last.medications, LAMBDA med : NearSlot(med, last.timeSlot))

\* The rules naming the two drugs, case-insensitively and in either order.
RulesFor(a, b) ==
  {rule \in Range(interactionRules) :
     {toLowerCase(a), toLowerCase(b)} = {rule.drug1, rule.drug2}
     /\ toLowerCase(a) # toLowerCase(b)}

\* The index pairs i < j of filtered medications that some rule names.
LastPairs ==
  {p \in (1..Len(LastFiltered)) \X (1..Len(LastFiltered)) :
     /\ p[1] < p[2]
     /\ RulesFor(LastFiltered[p[1]].name, LastFiltered[p[2]].name) # {}}

\* The k-th of those pairs, i ascending and then j ascending.
LastPair(k) ==
  CHOOSE p \in LastPairs :
    Cardinality({q \in LastPairs :
                   q[1] < p[1] \/ (q[1] = p[1] /\ q[2] < p[2])}) = k - 1

\* The interaction conflict of a pair of filtered medications.
ConflictOf(p) ==
  LET rule == CHOOSE r \in RulesFor(LastFiltered[p[1]].name, LastFiltered[p[2]].name) : TRUE
  IN [type |-> "interaction", severity |-> rule.severity,
      message |-> rule.message,
      medications |-> <<LastFiltered[p[1]].name, LastFiltered[p[2]].name>>]

\* C12: checkTimeSlotConflicts(meds, T) returns the food conflict (if any)
\* first and then the interaction conflicts in the order the pairs (i, j),
\* i < j, of the filtered medications are enumerated; for Aspirin (with
\* food, 09:00) and Warfarin (without food, 09:10) at slot 09:00 it returns
\* exactly a food/warning conflict naming both and then an
\* interaction/critical conflict.
C12_ConflictOrder ==
  last.op = "checkTimeSlotConflicts"
    => LET interactions == SelectSeq(last.result, LAMBDA c : c.type = "interaction")
       IN /\ \A a, b \in 1..Len(last.result) :
               (a < b /\ last.result[b].type = "food") => last.result[a].type = "food"
          /\ Len(interactions) = Cardinality(LastPairs)
          /\ \A k \in 1..Len(interactions) :
               interactions[k].medications
                 = <<LastFiltered[LastPair(k)[1]].name, LastFiltered[LastPair(k)[2]].name>>
          /\ ( /\ namesOf(last.medications) = <<Aspirin, Warfarin>>
               /\ last.timeSlot = T0900 )
             => /\ Len(last.result) = 2
                /\ last.result[1].type = "food"
                /\ last.result[1].severity = "warning"
                /\ last.result[1].medications = <<Aspirin, Warfarin>>
                /\ last.result[2].type = "interaction"
                /\ last.result[2].severity = "critical"

\* C12 witness: a check that returned a food conflict followed by two
\* interaction conflicts.
C12_Witness ==
  /\ last.op = "checkTimeSlotConflicts"
  /\ Len(last.result) = 3
  /\ last.result[1].type = "food"
  /\ last.result[2].medications # last.result[3].medications

\* C13: the result holds exactly one food conflict (type food, severity
\* warning) if the filtered medications hold one tagged 'with' and one tagged
\* 'without', and none otherwise; the conflict names exactly all 'with' and
\* all 'without' medications of the filtered set, never one tagged 'none'
\* and never one with no time within 30 minutes of the slot.
C13_FoodConflict ==
  last.op = "checkTimeSlotConflicts"
    => LET food == SelectSeq(last.result, LAMBDA c : c.type = "food")
           tagged == SelectSeq(LastFiltered, LAMBDA med : med.food \in {"with", "without"})
           clash == /\ \E med \in Range(LastFiltered) : med.food = "with"
                    /\ \E med \in Range(LastFiltered) : med.food = "without"
       IN /\ Len(food) = IF clash THEN 1 ELSE 0
          /\ clash =>
               /\ food[1].severity = "warning"
               /\ Len(food[1].medications) = Len(tagged)
               /\ \A name \in Range(food[1].medications) \cup Range(namesOf(tagged)) :
                    Cardinality({k \in 1..Len(tagged) : tagged[k].name = name})
                      = Cardinality({k \in 1..Len(tagged) : food[1].medications[k] = name})

\* C13 witness: a food conflict was returned although a medication with a
\* food rule has no time in the slot; the conflict names the two others.
C13_Witness ==
  /\ last.op = "checkTimeSlotConflicts"
  /\ \E c \in Range(last.result) :
       /\ c.type = "food"
       /\ Len(c.medications) = 2
  /\ Len(LastFiltered) = 2
  /\ \A med \in Range(last.medications) : med.food # "none"
  /\ Len(last.medications) = 3

C15_WithinSlot ==
  last.op = "isTimeInSlot"
    => /\ last.result
            <=> /\ MinutesOf(last.time) - MinutesOf(last.slot) <= 30
                /\ MinutesOf(last.slot) - MinutesOf(last.time) <= 30
       /\ (last.time = T0900 /\ last.slot = T0929) => last.result
       /\ (last.time = T0900 /\ last.slot = T0930) => last.result
       /\ (last.time = T0900 /\ last.slot = T0931) => ~last.result
       /\ (last.time = T2350 /\ last.slot = T0010) => ~last.result

\* C15 witness: 23:50 was tested against the slot 00:10 and found outside.
C15_Witness ==
  /\ last.op = "isTimeInSlot"
  /\ last.time = T2350
  /\ last.slot = T0010
  /\ last.result = FALSE

\* The zero-padded HH:MM of a minute of the day, 0..1439.
ClockString(m) ==
  (IF m \div 60 < 10 THEN "0" ELSE "") \o ToString(m \div 60) \o ":"
  \o (IF m % 60 < 10 THEN "0" ELSE "") \o ToString(m % 60)

\* C16: for negative offsets offsetTime wraps backwards modulo 1440
\* minutes: for every valid time t and every k < 0 the result is the
\* zero-padded HH:MM of (60*HH + MM + k) mod 1440 taken in 0..1439, e.g.
\* offsetTime("00:00", -30) = "23:30".
C16_NegativeOffsetWraps ==
  (last.op = "offsetMedicationTime" /\ last.offsetMinutes < 0)
    => last.result = ClockString((MinutesOf(last.time) + last.offsetMinutes) % 1440)

\* C17: for every valid time t and every offset k >= 0, k >= 1440
\* included, offsetTime(t, k) is the zero-padded HH:MM of
\* (60*HH + MM + k) mod 1440; offsetTime("23:45", 30) = "00:15" and
\* offsetTime(t, 1440) = t.
C17_NonNegativeOffsetWraps ==
  (last.op = "offsetMedicationTime" /\ last.offsetMinutes >= 0)
    => /\ last.result = ClockString((MinutesOf(last.time) + last.offsetMinutes) % 1440)
       /\ (last.time = T2345 /\ last.offsetMinutes = 30) => last.result = "00:15"
       /\ last.offsetMinutes = 1440 => last.result = ClockString(MinutesOf(last.time))

\* C17 witness: 23:45 was offset by 30 minutes into the next day.
C17_Witness ==
  /\ last.op = "offsetMedicationTime"
  /\ last.time = T2345
  /\ last.offsetMinutes = 30
  /\ last.result = "00:15"

\* C18: defaultTimesForFrequency returns [09:00] for 1, [09:00, 21:00] for
\* 2, [09:00, 15:00, 21:00] for 3, [09:00, 13:00, 17:00, 21:00] for 4, and
\* [09:00] for every other integer.
C18_DefaultTimes ==
  last.op = "generateDefaultTimes"
    => /\ last.frequency = 1 => last.result = <<[hh |-> 9, mm |-> 0]>>
       /\ last.frequency = 2 =>
            last.result = <<[hh |-> 9, mm |-> 0], [hh |-> 21, mm |-> 0]>>
       /\ last.frequency = 3 =>
            last.result = <<[hh |-> 9, mm |-> 0], [hh |-> 15, mm |-> 0],
                            [hh |-> 21, mm |-> 0]>>
       /\ last.frequency = 4 =>
            last.result = <<[hh |-> 9, mm |-> 0], [hh |-> 13, mm |-> 0],
                            [hh |-> 17, mm |-> 0], [hh |-> 21, mm |-> 0]>>
       /\ last.frequency \notin 1..4 => last.result = <<[hh |-> 9, mm |-> 0]>>

\* C18 witness: the default times of the frequencies 0, 5 and -1 were asked
\* for, one of them last, and were [09:00].
C18_Witness ==
  /\ last.op = "generateDefaultTimes"
  /\ last.frequency \in {0, 5, -1}
  /\ last.result = <<[hh |-> 9, mm |-> 0]>>

\* A task is between its read and its write: it holds the value it computed
\* from what it read and its save has not landed.
Between(task) ==
  task.pc \in {"addDoseEvent.set", "clearInsights.set", "addInsight.set"}

\* C19: at most one Record Store operation is in progress at any time: no
\* sequence of UI events (recording a dose, the 'Override & Record'
\* callback, opening the Insights tab, dashboard focus or refresh) starts a
\* store read-modify-write while another one is between its read and its
\* write.
C19_OneStoreOperation ==
  \A i, j \in 1..Len(tasks) :
    (Between(tasks[i]) /\ Between(tasks[j])) => i = j

\* C20: when the reachability probe reports connected and reachable, the
\* resident exists and the AI collaborator returns k >= 1 insights, with the
\* storage working, generateInsights(r) stores those k insights for r,
\* after all the rule-based insights of steps 1-3.
C20_AiInsightsAppended ==
  ( /\ last.op = "generateInsights"
    /\ last.fault = NoFault
    /\ AiDelivers(last.ai)
    /\ Len(last.ai.items) >= 1
    /\ \E s \in Range(last.pre.seniors) : s.id = last.seniorId )
    => /\ last.outcome = "ok"
       /\ Content(InsightsOf(storage, last.seniorId))
            = Content(ruleInsights(LastStart, last.seniorId)) \o Content(last.ai.items)

\* C20 witness: a run with the AI delivering, over a store that held the
\* insights of an earlier run, has stored rule-based insights followed by
\* the AI's insight, which comes last.
C20_Witness ==
  /\ last.op = "generateInsights"
  /\ InsightsOf(last.pre, last.seniorId) # <<>>
  /\ last.fault = NoFault
  /\ AiDelivers(last.ai)
  /\ Len(last.ai.items) >= 1
  /\ ruleInsights(LastStart, last.seniorId) # <<>>
  /\ LET stored == InsightsOf(storage, last.seniorId)
     IN /\ Len(stored) = Len(ruleInsights(LastStart, last.seniorId)) + Len(last.ai.items)
        /\ stored[Len(stored)].message = AiItem(Len(last.ai.items)).message

\* The step of generateInsights an insight comes from, told by its message:
\* 1 polypharmacy, 2 adherence, 3 miss pattern, 4 the AI.
StepOf(insight) ==
  IF insight.message = PolyInsight(insight.seniorId).message THEN 1
  ELSE IF insight.message = AdherenceInsight(insight.seniorId).message THEN 2
  ELSE IF \E hour \in 0..23 :
            insight.message = MissInsight(insight.seniorId, hour).message THEN 3
  ELSE 4

\* The insights of a list are in the order of their steps.
InStepOrder(insights) ==
  \A j, k \in 1..Len(insights) : j < k => StepOf(insights[j]) <= StepOf(insights[k])

\* C21: in the list stored by one generateInsights(r) run, and as returned
\* by getInsights(r), the polypharmacy insight comes before the adherence
\* warning, which comes before every miss-pattern insight, which come
\* before every AI insight.
C21_EmissionOrder ==
  /\ last.op = "generateInsights"
       => InStepOrder(InsightsOf(storage, last.seniorId))
  /\ (last.op = "getInsights" /\ last.fault = NoFault /\ last.seniorId # NoSenior)
       => /\ last.result = InsightsOf(last.pre, last.seniorId)
          /\ InStepOrder(last.result)

\* C21 witness: a run, over a store holding the insights of an earlier run,
\* has stored a polypharmacy, an adherence, two miss-pattern and an AI
\* insight, in that order.
C21_Witness ==
  /\ last.op = "generateInsights"
  /\ InsightsOf(last.pre, last.seniorId) # <<>>
  /\ LET stored == InsightsOf(storage, last.seniorId)
     IN /\ Len(stored) = 5
        /\ StepOf(stored[1]) = 1
        /\ StepOf(stored[2]) = 2
        /\ StepOf(stored[3]) = 3
        /\ StepOf(stored[4]) = 3
        /\ StepOf(stored[5]) = 4

\* The number of dose events of a resident, skipped or delayed, that were
\* scheduled in an hour of the day.
MissesAt(db, seniorId, hour) ==
  Cardinality({j \in 1..Len(db.doseEvents) :
                 /\ db.doseEvents[j].seniorId = seniorId
                 /\ db.doseEvents[j].status \in {"skipped", "delayed"}
                 /\ (db.doseEvents[j].scheduledTime % DayMs) \div HourMs = hour})

\* The stored insights of a resident with a message, and their number.
StoredWith(db, seniorId, message) ==
  SelectSeq(InsightsOf(db, seniorId), LAMBDA i : i.message = message)

\* C22: generateInsights(r), with the storage working, emits exactly one
\* miss-pattern 'info' insight for each hour of day with at least 3 dose
\* events of the resident skipped or delayed (of any age), and none for an
\* hour with fewer; taken events never count.
C22_MissPattern ==
  (last.op = "generateInsights" /\ last.fault = NoFault)
    => \A hour \in 0..23 :
         LET emitted == StoredWith(storage, last.seniorId,
                                   MissInsight(last.seniorId, hour).message)
         IN /\ Len(emitted) = IF MissesAt(last.pre, last.seniorId, hour) >= 3
                              THEN 1 ELSE 0
            /\ \A i \in Range(emitted) : i.severity = "info"

\* C22 witness: two skipped doses and one delayed dose at 09:00 gave one
\* insight for hour 9.
C22_Witness ==
  /\ last.op = "generateInsights" /\ last.fault = NoFault
  /\ MissesAt(last.pre, last.seniorId, 9) = 3
  /\ \E e \in Range(last.pre.doseEvents) : e.status = "delayed"
  /\ Len(StoredWith(storage, last.seniorId, MissInsight(last.seniorId, 9).message)) = 1

\* calculateAdherence(r, 7) as the last operation found it when it started.
LastAdherence == calculateAdherence(LastStart, last.seniorId, WindowDays)

\* C23: generateInsights(r), with the storage working, emits exactly one
\* 'warning' adherence insight if calculateAdherence(r, 7) is strictly
\* below 80 and none if it is 80 or more; a resident with no medications
\* gets no adherence warning.
C23_AdherenceWarning ==
  (last.op = "generateInsights" /\ last.fault = NoFault)
    => LET emitted == StoredWith(storage, last.seniorId,
                                 AdherenceInsight(last.seniorId).message)
       IN /\ Len(emitted) = IF LastAdherence.num < 80 * LastAdherence.den
                            THEN 1 ELSE 0
          /\ \A i \in Range(emitted) : i.severity = "warning"
          /\ (\A m \in Range(last.pre.medications) : m.seniorId # last.seniorId)
               => emitted = <<>>

\* C23 witness: an adherence of exactly 80 (28 of 35 doses taken) gave no
\* warning.
C23_Witness ==
  /\ last.op = "generateInsights" /\ last.fault = NoFault
  /\ LastAdherence.num = 80 * LastAdherence.den
  /\ LastAdherence.den = 35
  /\ StoredWith(storage, last.seniorId, AdherenceInsight(last.seniorId).message) = <<>>

\* The number of medications stored for a resident.
MedicationsOf(db, seniorId) ==
  Cardinality({j \in 1..Len(db.medications) : db.medications[j].seniorId = seniorId})

\* C24: generateInsights(r), with the storage working, emits exactly one
\* 'info' polypharmacy insight if the resident has strictly more than 5
\* medications and none if the resident has 5 or fewer.
C24_Polypharmacy ==
  (last.op = "generateInsights" /\ last.fault = NoFault)
    => LET emitted == StoredWith(storage, last.seniorId,
                                 PolyInsight(last.seniorId).message)
       IN /\ Len(emitted) = IF MedicationsOf(last.pre, last.seniorId) > 5
                            THEN 1 ELSE 0
          /\ \A i \in Range(emitted) : i.severity = "info"

\* C24 witness: a resident with exactly 5 medications got no polypharmacy
\* insight.
C24_Witness ==
  /\ last.op = "generateInsights" /\ last.fault = NoFault
  /\ MedicationsOf(last.pre, last.seniorId) = 5
  /\ StoredWith(storage, last.seniorId, PolyInsight(last.seniorId).message) = <<>>

\* The stored insights of the residents other than one.
InsightsOfOthers(db, seniorId) ==
  SelectSeq(db.insights, LAMBDA i : i.seniorId # seniorId)

\* C25: generateInsights(r), with the storage working, replaces insights by
\* resident only: the insights of every other resident, and all residents,
\* medications and dose events, are the same (content and relative order)
\* after the call as before it.
C25_ReplaceByResident ==
  (last.op = "generateInsights" /\ last.fault = NoFault)
    => /\ InsightsOfOthers(storage, last.seniorId)
            = InsightsOfOthers(last.pre, last.seniorId)
       /\ storage.seniors = last.pre.seniors
       /\ storage.medications = last.pre.medications
       /\ storage.doseEvents = last.pre.doseEvents

\* C25 witness: a run for one resident stored insights for it and left the
\* insights another resident had.
C25_Witness ==
  /\ last.op = "generateInsights" /\ last.fault = NoFault
  /\ InsightsOfOthers(last.pre, last.seniorId) # <<>>
  /\ InsightsOf(storage, last.seniorId) # <<>>
  /\ InsightsOfOthers(storage, last.seniorId) = InsightsOfOthers(last.pre, last.seniorId)

\* C26: for each time slot T shown by loadSchedule, the slot's conflict
\* list equals checkTimeSlotConflicts applied to all of the resident's
\* medications and T: a conflict between two medications scheduled within
\* 30 minutes of T is shown at T also when their time strings differ.
C26_SlotConflictsOfAll ==
  last.op = "loadSchedule"
    => \A k \in 1..Len(last.result) :
         last.result[k].conflicts
           = checkTimeSlotConflicts(last.medications, last.result[k].time)

\* The time 30 minutes after a time of day.
HalfHourAfter(time) ==
  [hh |-> ((MinutesOf(time) + 30) % 1440) \div 60,
   mm |-> ((MinutesOf(time) + 30) % 1440) % 60]

\* The medications of the first resident stored with a time equal to T.
ScheduledAt(db, time) ==
  SelectSeq(db.medications, LAMBDA m :
    m.seniorId = SeniorA /\ time \in Range(m.times))

\* C30: after handleAutoOffset has run on the food conflict of slot T and
\* the schedule is reloaded, slot T has no food conflict any more: the
\* medication that is moved is one scheduled at T, its time T is replaced
\* by T + 30 minutes, and the medications left at T do not mix 'with' and
\* 'without' food tags.
C30_AutoOffsetResolves ==
  last.op = "handleAutoOffset"
    => /\ \A k \in 1..Len(last.result) :
            last.result[k].time = last.timeSlot
              => \A q \in 1..Len(last.result[k].conflicts) :
                   last.result[k].conflicts[q].type # "food"
       /\ \E i \in 1..Len(last.pre.medications) :
            /\ last.pre.medications[i].seniorId = SeniorA
            /\ last.timeSlot \in Range(last.pre.medications[i].times)
            /\ storage.medications
                 = [last.pre.medications EXCEPT ![i].times =
                      [k \in 1..Len(@) |->
                         IF @[k] = last.timeSlot THEN HalfHourAfter(last.timeSlot)
                         ELSE @[k]]]
       /\ ~ /\ \E m \in Range(ScheduledAt(storage, last.timeSlot)) : m.food = "with"
            /\ \E m \in Range(ScheduledAt(storage, last.timeSlot)) : m.food = "without"

\* Every async function the UI started has settled or waits for the user.
Settled == \A i \in 1..Len(tasks) : tasks[i].pc \in Parked

\* The recordDose calls that have completed.
Recorded == {i \in 1..Len(tasks) : tasks[i].kind = "recordDose" /\ tasks[i].pc = "done"}

\* The dose event of a task is in the store.
Holds(db, task) ==
  \E e \in Range(db.doseEvents) :
    /\ e.seniorId = task.event.seniorId
    /\ e.medicationId = task.event.medicationId
    /\ e.scheduledTime = task.event.scheduledTime
    /\ e.recordedTime = task.event.recordedTime
    /\ e.status = task.event.status

\* C27: if two recordDose calls for the same resident overlap (the second
\* addDoseEvent reads the dose events before the first one's write
\* completes), both dose events are in the store after both complete.
C27_OverlappingDosesKept ==
  (Settled /\ Cardinality(Recorded) = 2)
    => \A i \in Recorded : Holds(storage, tasks[i])

\* The calls that ran generateInsights to its end: recordDose and the
\* Insights tab's loadInsights.
Generated ==
  {i \in 1..Len(tasks) : /\ tasks[i].kind \in {"recordDose", "loadInsights"}
                         /\ tasks[i].pc = "done"}

\* C28: if two generateInsights(r) runs for the same resident overlap (one
\* started by recordDose, one by the Insights tab's loadInsights, say), then
\* after both complete the stored insights of r contain each rule-based
\* insight exactly once.
C28_RuleInsightsOnce ==
  (Settled /\ Cardinality(Generated) = 2)
    => LET rules == ruleInsights(Begin(storage, now, NoFault, 0), SeniorA)
       IN \A k \in 1..Len(rules) :
            Len(StoredWith(storage, SeniorA, rules[k].message)) = 1

\* The conflict list of the slot in which a dose was marked.
ConflictsOfSlot(db, task) ==
  slotOf(getMedications(Begin(db, 0, NoFault, 0), task.seniorId),
         task.slot[1]).conflicts

\* The case in which the prompt is due: 'taken' in a slot whose conflict
\* list contains a critical conflict.
PromptDue(db, task) ==
  /\ task.event.status = "taken"
  /\ \E k \in 1..Len(ConflictsOfSlot(db, task)) :
       ConflictsOfSlot(db, task)[k].severity = "critical"

\* C29: in ScheduleTab, when a dose is marked 'taken' in a slot whose
\* conflict list contains a critical conflict, no dose event is written
\* before the user chooses 'Override & Record', and 'Cancel' writes nothing;
\* a dose marked 'skipped' or 'delayed', or 'taken' in a slot without a
\* critical conflict, is written without that prompt.
C29_PromptBeforeWrite ==
  \A i \in 1..Len(tasks) :
    tasks[i].kind = "recordDose" =>
      LET task == tasks[i]
      IN /\ task.asked <=> PromptDue(storage, task)
         /\ task.pc \in {"alert", "cancelled"} =>
              (task.asked /\ ~Holds(storage, task))
         /\ (task.pc = "addDoseEvent.get" /\ ~task.asked) =>
              ~Holds(storage, task)
         /\ task.pc = "addDoseEvent.set" =>
              Holds([doseEvents |-> task.snap], task)
         /\ Holds(storage, task) =>
              task.pc \notin {"alert", "cancelled", "addDoseEvent.get",
                              "addDoseEvent.set"}

\* A dose marked 'taken' in a slot with a critical conflict was written
\* after 'Override & Record'.
C29_Witness ==
  \E i \in 1..Len(tasks) :
    /\ tasks[i].kind = "recordDose"
    /\ tasks[i].asked
    /\ tasks[i].pc = "done"
    /\ Holds(storage, tasks[i])


============================================================================
